---- MODULE Spec2Model ----
(***************************************************************************)
(* Verification model of the platform-metrics layer of the funnel command  *)
(* center: the /api/platforms route handlers (connect, sync, disconnect,   *)
(* list), the two JSON blob documents they read and write, the aggregator  *)
(* fetchAllPlatformMetrics, and the per-platform connectors.               *)
(*                                                                         *)
(* Conventions.  A JSON object slot that may be absent is an option: the   *)
(* empty set when the key is absent (or undefined), a singleton otherwise. *)
(* JSON.stringify drops undefined-valued keys, so an object written with   *)
(* an undefined slot is read back with the key absent: both are None.      *)
(***************************************************************************)
EXTENDS Integers, Sequences, FiniteSets, TLC

(* ------------------------------ bounds -------------------------------- *)
MaxReqs == 2        \* requests that may be in flight at the same time
MaxClock == 1       \* the system clock runs over 0..MaxClock
NumUsed == 2        \* how many of the four platforms requests may name
MaxFaults == 2      \* vendor calls of one connector run that do not answer 2xx with a good body
MaxLists == 3       \* lists the vendor returns for one account
MaxCount == 2       \* member counts run over 0..MaxCount
MaxRuns == 2        \* a campaign-report response is at most MaxRuns runs of equal reports
MaxRepeat == 6      \* reports in one run
MaxNum == 1         \* numbers in vendor responses run over 0..MaxNum
MaxCamps == 3       \* campaign reports with click and open counts in one response
MaxOrders == 4      \* completed orders the vendor holds for the trailing year
PerPage == 2        \* orders on one fetched page (the two pages are the sample)
MaxCust == 2        \* customer ids run over 0..MaxCust, 0 being a guest
MaxDate == 2        \* order dates run over 1..MaxDate
MaxRows == 2        \* rows of a short vendor report
MaxFiles == 7       \* files the Drive folder listing may return
MaxRate == 3        \* open rates run over 0..MaxRate (in a fixed unit)

(* --------------------------- program constants ------------------------ *)
\* the platforms the routes and the aggregator dispatch on (the bigcommerce
\* key of the stored types is kept for compilation only and is never used)
PlatformSeq == <<"mailchimp", "woocommerce", "google_analytics", "google_ads">>
Platforms == {PlatformSeq[i] : i \in 1..4}
UsedPlatforms == {PlatformSeq[i] : i \in 1..(IF NumUsed < 4 THEN NumUsed ELSE 4)}
Bogus == "bogus"                     \* a platform name no connector knows
CredVals == {"credA", "credB"}       \* submitted credential objects
DataVals == {"d1", "d2"}             \* what the vendor currently reports
ConnErrors == {"vendor says no"}     \* messages of errors thrown by connectors
BlobError == "blob failure"          \* message of an error thrown by the blob store
NoStamp == -1                        \* an absent timestamp
Reqs == 1..MaxReqs
Times == 0..MaxClock

None == {}
Some(v) == {v}
TheOne(S) == CHOOSE x \in S : TRUE
Min(a, b) == IF a < b THEN a ELSE b

EmptyCreds == [p \in Platforms |-> None]
EmptyMetrics == [slots |-> [p \in Platforms |-> None], last_synced_at |-> NoStamp]

VARIABLES
    credsDoc,      \* blob data/platform-credentials.json
    metricsDoc,    \* blob data/platform-metrics.json
    req,           \* one record per request slot: handler position and locals
    clock,         \* system clock
    mode,          \* "isolated": one request at a time; "overlap": requests interleave
    disconnected,  \* history: platforms whose disconnect completed in isolation
    agg,           \* one run of fetchAllPlatformMetrics, task by task
    conn,          \* one run of a connector, call by call
    calc,          \* one evaluation of a pure function: its input and its result
    ingest         \* one Drive ingestion run of the DriveIngestion component

routeVars == <<credsDoc, metricsDoc, req, mode, disconnected>>
notRoute == <<agg, conn, calc, ingest>>
notAgg == <<credsDoc, metricsDoc, req, mode, disconnected, conn, calc, ingest>>
notConn == <<credsDoc, metricsDoc, req, clock, mode, disconnected, agg, calc, ingest>>
notCalc == <<credsDoc, metricsDoc, req, clock, mode, disconnected, agg, conn, ingest>>
vars == <<credsDoc, metricsDoc, req, clock, mode, disconnected, agg, conn, calc, ingest>>
notIngest == <<credsDoc, metricsDoc, req, clock, mode, disconnected, agg, conn, calc>>

(* --------------------- status builder and summarizer ------------------ *)
\* the formatted key metrics of one cached record
Preview(m) == <<"preview", m.platform, m.data>>

\* variant: connected is read off the cached record
buildPlatformStatuses_fromMetrics(creds, metrics) ==
    [p \in Platforms |->
        [connected |-> metrics.slots[p] # None,
         last_synced |-> IF metrics.slots[p] = None THEN NoStamp
                         ELSE TheOne(metrics.slots[p]).fetched_at,
         preview |-> IF metrics.slots[p] = None THEN None
                     ELSE Some(Preview(TheOne(metrics.slots[p])))]]

buildPlatformStatuses(creds, metrics) ==
    [p \in Platforms |->
        [connected |-> creds[p] # None,
         last_synced |-> IF metrics.slots[p] = None THEN NoStamp
                         ELSE TheOne(metrics.slots[p]).fetched_at,
         preview |-> IF metrics.slots[p] = None THEN None
                     ELSE Some(Preview(TheOne(metrics.slots[p])))]]

\* the lines pushed for one platform: title, its metric lines, a blank line
SectionLines(metrics, p) ==
    IF metrics.slots[p] = None THEN <<>>
    ELSE << <<"section", p>>, <<"metrics", p, TheOne(metrics.slots[p]).data>>, <<"blank">> >>

\* variant: the sentinel test is left out, the heading and the note are always returned
buildPlatformMetricsSummary_noSentinel(metrics) ==
    << <<"heading">> >>
       \o SectionLines(metrics, PlatformSeq[1])
       \o SectionLines(metrics, PlatformSeq[2])
       \o SectionLines(metrics, PlatformSeq[3])
       \o SectionLines(metrics, PlatformSeq[4])
       \o << <<"note">> >>

\* the text is the sequence of its lines; the empty string is the empty sequence
buildPlatformMetricsSummary(metrics) ==
    LET lines == << <<"heading">> >>
                 \o SectionLines(metrics, PlatformSeq[1])
                 \o SectionLines(metrics, PlatformSeq[2])
                 \o SectionLines(metrics, PlatformSeq[3])
                 \o SectionLines(metrics, PlatformSeq[4])
    IN IF Len(lines) = 1 THEN <<>> ELSE lines \o << <<"note">> >>

\* platforms that have a section in a summary text
SectionsOf(text) == {text[i][2] : i \in {j \in 1..Len(text) : text[j][1] = "section"}}

(* ------------------------------ blob store ---------------------------- *)
\* readJsonBlob: the document, or null when no blob matches or the download is
\* not ok (callers take `?? {}`), or a thrown error (list/fetch/json rejects)
ReadKinds == {"ok", "null", "throw"}

\* variant: the download is skipped and the caller gets its default
readJsonBlob_skip(doc, empty, kind) == empty

readJsonBlob(doc, empty, kind) == IF kind = "ok" THEN doc ELSE empty

\* writeJsonBlob: put() replaces the whole document, or rejects and writes nothing
WriteKinds == {"ok", "throw"}
writeJsonBlob(doc, data, kind) == IF kind = "ok" THEN data ELSE doc

\* obj[platform] for a route parameter: unknown names have no slot
Slot(obj, p) == IF p \in Platforms THEN obj[p] ELSE None

\* variant: the spread of the existing object is left out
SetSlot_only(obj, p, opt) == [q \in DOMAIN obj |-> IF q = p THEN opt ELSE None]

\* { ...existing, [platform]: value } for an option value
SetSlot(obj, p, opt) == [obj EXCEPT ![p] = opt]

(* ------------------------------ responses ----------------------------- *)
NoResponse ==
    [status |-> 0, ok |-> FALSE, error |-> "", statuses |-> None, last_synced_at |-> NoStamp,
     text |-> <<>>, unhandled |-> FALSE]
ErrorResponse(st, msg) == [NoResponse EXCEPT !.status = st, !.error = msg]
\* an exception no handler catches: the framework answers 500
Unhandled(msg) == [NoResponse EXCEPT !.status = 500, !.error = msg, !.unhandled = TRUE]
OkResponse(statuses) == [NoResponse EXCEPT !.status = 200, !.ok = TRUE, !.statuses = Some(statuses)]
TextResponse(text) == [NoResponse EXCEPT !.status = 200, !.ok = TRUE, !.text = text]

IdleReq ==
    [op |-> "none", pc |-> "idle", platform |-> "", credentials |-> None,
     existing |-> EmptyCreds, updatedCreds |-> EmptyCreds, creds |-> EmptyCreds,
     platformMetric |-> None, freshMetrics |-> EmptyMetrics,
     existingMetrics |-> EmptyMetrics, updatedMetrics |-> EmptyMetrics,
     response |-> NoResponse,
     \* history, not program state
     overlapped |-> FALSE,                               \* another request was in flight meanwhile
     invoked |-> {}, connResult |-> "none", connError |-> "",   \* connectors called, how the call ended
     changedCreds |-> FALSE, changedMetrics |-> FALSE,   \* a write of this request changed the document
     staleCreds |-> FALSE, staleMetrics |-> FALSE,       \* it wrote from a snapshot the document had left
     preSlot |-> None,                                   \* sync: the platform's cached record at entry
     nullRead |-> FALSE]                                 \* one of its reads came back null

InFlight(r) == req[r].pc \notin {"idle", "done"}
OthersInFlight(r) == \E o \in Reqs \ {r} : InFlight(o)

\* a request enters a handler in the lowest free slot (slots are interchangeable);
\* history fields are set and overlap is recorded on both sides.  In mode
\* "isolated" a finished request gives its slot to the next one; in mode
\* "overlap" every slot serves one request and keeps its history.
Free(r) == IF mode = "overlap" THEN req[r].pc = "idle" ELSE req[r].pc \in {"idle", "done"}
Begin(r, op, p, c, pc, resp) ==
    /\ Free(r)
    /\ \A o \in Reqs : o < r => ~Free(o)
    /\ mode = "isolated" => ~OthersInFlight(r)
    /\ req' = [o \in Reqs |->
                 IF o = r
                 THEN [IdleReq EXCEPT !.op = op, !.pc = pc, !.platform = p, !.credentials = c,
                                      !.response = resp,
                                      !.preSlot = IF op = "sync" THEN Slot(metricsDoc.slots, p) ELSE None,
                                      !.overlapped = OthersInFlight(r)]
                 ELSE IF InFlight(o) THEN [req[o] EXCEPT !.overlapped = TRUE] ELSE req[o]]

\* the handler returns: its locals are gone, the response and the history stay
Finish(r, resp) ==
    [req[r] EXCEPT !.pc = "done", !.response = resp,
                   !.existing = EmptyCreds, !.existingMetrics = EmptyMetrics,
                   !.updatedCreds = EmptyCreds, !.creds = EmptyCreds, !.platformMetric = None,
                   !.freshMetrics = EmptyMetrics, !.updatedMetrics = EmptyMetrics]

(* ------------------------------ aggregator ---------------------------- *)
\* what one connector invocation ends in: a record, or a thrown error
ConnOk(p, d, now) == [ok |-> TRUE, rec |-> Some([platform |-> p, fetched_at |-> now, data |-> d]), err |-> ""]
ConnFail(e) == [ok |-> FALSE, rec |-> None, err |-> e]
ConnOutcomes(p, now) == {ConnOk(p, d, now) : d \in DataVals} \cup {ConnFail(e) : e \in ConnErrors}

\* a task promise: the results object as the task left it, and whether it rejected
\* fetchX(creds.x).then((m) => { results.x = m; }): a rejection passes through
Then(results, p, outcome) ==
    IF outcome.ok THEN [results |-> [results EXCEPT !.slots[p] = outcome.rec], rejected |-> FALSE, err |-> ""]
    ELSE [results |-> results, rejected |-> TRUE, err |-> outcome.err]

\* variant: the catch handler is missing
Catch_missing(task) == task

\* .catch(() => {}): the rejection is swallowed
Catch(task) == [task EXCEPT !.rejected = FALSE, !.err = ""]

TaskSettle(results, p, outcome) == Catch(Then(results, p, outcome))

\* a task is pushed for each platform whose credential is present
Launched(creds) == {p \in Platforms : creds[p] # None}

\* Promise.all(tasks) over the launched tasks, taken in platform order
RECURSIVE SettleFrom(_, _, _, _)
SettleFrom(acc, creds, out, i) ==
    IF i > Len(PlatformSeq) THEN acc
    ELSE LET p == PlatformSeq[i]
             t == TaskSettle(acc.results, p, out[p])
         IN SettleFrom(IF p \in Launched(creds)
                       THEN [results |-> t.results,
                             rejected |-> acc.rejected \/ t.rejected,
                             err |-> IF acc.rejected THEN acc.err ELSE t.err]
                       ELSE acc,
                       creds, out, i + 1)

\* results = {}; await Promise.all(tasks); results.last_synced_at = now; return results
fetchAllPlatformMetrics(creds, out, now) ==
    LET all == SettleFrom([results |-> EmptyMetrics, rejected |-> FALSE, err |-> ""], creds, out, 1)
    IN [threw |-> all.rejected, err |-> all.err,
        metrics |-> IF all.rejected THEN EmptyMetrics
                    ELSE [all.results EXCEPT !.last_synced_at = now]]

(* ------------------- POST /api/platforms  (connect) ------------------- *)
Bodies ==
    {[parsed |-> FALSE, platform |-> "", credentials |-> None]}
    \cup [parsed : {TRUE}, platform : UsedPlatforms \cup {Bogus, ""},
          credentials : {None} \cup {Some(c) : c \in CredVals}]

\* variant: the connection test fans out to every connector
ConnectorFor_fanout(platform) == IF platform \in Platforms THEN Platforms ELSE {}

\* the if / else-if chain that picks the connector to call
ConnectorFor(platform) ==
    IF platform = "mailchimp" THEN {"mailchimp"}
    ELSE IF platform = "woocommerce" THEN {"woocommerce"}
    ELSE IF platform = "google_analytics" THEN {"google_analytics"}
    ELSE IF platform = "google_ads" THEN {"google_ads"}
    ELSE {}

\* err instanceof Error ? err.message : String(err)
ConnectErrorText(e) == e
StorageErrorText == "Storage error: blob failure"

POST_parse(r) ==
    \E body \in Bodies :
        /\ IF ~body.parsed
           THEN Begin(r, "connect", "", None, "done", ErrorResponse(400, "Invalid request body"))
           ELSE IF body.platform = "" \/ body.credentials = None
           THEN Begin(r, "connect", body.platform, body.credentials, "done",
                      ErrorResponse(400, "platform and credentials are required"))
           ELSE Begin(r, "connect", body.platform, body.credentials, "readCreds", NoResponse)
        /\ disconnected' = [p \in Platforms |->
                              IF body.parsed /\ body.credentials # None /\ p = body.platform
                              THEN FALSE ELSE disconnected[p]]
        /\ UNCHANGED <<credsDoc, metricsDoc, clock, mode, notRoute>>

\* await readJsonBlob(CREDS_PATH), then the dispatch up to the connector call
POST_readCreds(r) ==
    /\ req[r].op = "connect" /\ req[r].pc = "readCreds"
    /\ \E k \in ReadKinds :
        LET existing == readJsonBlob(credsDoc, EmptyCreds, k)
            platform == req[r].platform
        IN req' = [req EXCEPT ![r] =
             IF k = "throw" THEN Finish(r, Unhandled(BlobError))
             ELSE IF ConnectorFor(platform) = {}
             THEN [Finish(r, ErrorResponse(400, "Unknown platform")) EXCEPT
                        !.nullRead = (k = "null" /\ credsDoc # EmptyCreds)]
             ELSE [req[r] EXCEPT !.pc = "test", !.existing = existing, !.nullRead = (k = "null" /\ credsDoc # EmptyCreds),
                                 !.updatedCreds = SetSlot(existing, platform, req[r].credentials),
                                 !.invoked = ConnectorFor(platform)]]
    /\ UNCHANGED <<credsDoc, metricsDoc, clock, mode, disconnected, notRoute>>

\* the awaited connector settles
POST_test(r) ==
    /\ req[r].op = "connect" /\ req[r].pc = "test"
    /\ \E p \in req[r].invoked : \E out \in ConnOutcomes(p, clock) :
        req' = [req EXCEPT ![r] =
             IF out.ok
             THEN [req[r] EXCEPT !.pc = "writeCreds", !.platformMetric = out.rec, !.connResult = "ok"]
             ELSE [Finish(r, ErrorResponse(422, ConnectErrorText(out.err))) EXCEPT
                        !.connResult = "threw", !.connError = out.err]]
    /\ UNCHANGED <<credsDoc, metricsDoc, clock, mode, disconnected, notRoute>>

POST_writeCreds(r) ==
    /\ req[r].op = "connect" /\ req[r].pc = "writeCreds"
    /\ \E k \in WriteKinds :
        /\ credsDoc' = writeJsonBlob(credsDoc, req[r].updatedCreds, k)
        /\ req' = [req EXCEPT ![r] =
             IF k = "throw" THEN Finish(r, ErrorResponse(500, StorageErrorText))
             ELSE [req[r] EXCEPT !.pc = "readMetrics",
                                 !.changedCreds = (credsDoc' # credsDoc),
                                 !.staleCreds = (req[r].existing # credsDoc)]]
    /\ UNCHANGED <<metricsDoc, clock, mode, disconnected, notRoute>>

\* await readJsonBlob(METRICS_PATH); updatedMetrics is built, stamped with the time now
POST_readMetrics(r) ==
    /\ req[r].op = "connect" /\ req[r].pc = "readMetrics"
    /\ \E k \in ReadKinds :
        LET existingMetrics == readJsonBlob(metricsDoc, EmptyMetrics, k)
        IN req' = [req EXCEPT ![r] =
             IF k = "throw" THEN Finish(r, ErrorResponse(500, StorageErrorText))
             ELSE [req[r] EXCEPT !.pc = "writeMetrics", !.existingMetrics = existingMetrics,
                                 !.nullRead = (req[r].nullRead \/ (k = "null" /\ metricsDoc # EmptyMetrics)),
                                 !.updatedMetrics =
                                     [slots |-> SetSlot(existingMetrics.slots, req[r].platform,
                                                        req[r].platformMetric),
                                      last_synced_at |-> clock]]]
    /\ UNCHANGED <<credsDoc, metricsDoc, clock, mode, disconnected, notRoute>>

POST_writeMetrics(r) ==
    /\ req[r].op = "connect" /\ req[r].pc = "writeMetrics"
    /\ \E k \in WriteKinds :
        /\ metricsDoc' = writeJsonBlob(metricsDoc, req[r].updatedMetrics, k)
        /\ req' = [req EXCEPT ![r] =
             IF k = "throw" THEN Finish(r, ErrorResponse(500, StorageErrorText))
             ELSE [Finish(r, OkResponse(buildPlatformStatuses(req[r].updatedCreds,
                                                              req[r].updatedMetrics))) EXCEPT
                        !.changedMetrics = (metricsDoc' # metricsDoc),
                        !.staleMetrics = (req[r].existingMetrics # metricsDoc)]]
    /\ UNCHANGED <<credsDoc, clock, mode, disconnected, notRoute>>

(* ---------------- GET /api/platforms/[platform]  (sync) --------------- *)
Params == UsedPlatforms \cup {Bogus}

\* testCreds = { [platform]: creds[platform] }
OnlyKey(creds, p) == [q \in Platforms |-> IF q = p THEN creds[q] ELSE None]

SYNC_begin(r) ==
    /\ \E p \in Params : Begin(r, "sync", p, None, "readCreds", NoResponse)
    /\ UNCHANGED <<credsDoc, metricsDoc, clock, mode, disconnected, notRoute>>

\* await readJsonBlob(CREDS_PATH); 404 when not connected; else fetchAll is called
SYNC_readCreds(r) ==
    /\ req[r].op = "sync" /\ req[r].pc = "readCreds"
    /\ \E k \in ReadKinds :
        LET creds == readJsonBlob(credsDoc, EmptyCreds, k)
            platform == req[r].platform
        IN req' = [req EXCEPT ![r] =
             IF k = "throw" THEN Finish(r, Unhandled(BlobError))
             ELSE IF Slot(creds, platform) = None
             THEN [Finish(r, ErrorResponse(404, "Platform is not connected")) EXCEPT
                        !.nullRead = (k = "null" /\ credsDoc # EmptyCreds)]
             ELSE [req[r] EXCEPT !.pc = "fetchAll", !.creds = creds, !.nullRead = (k = "null" /\ credsDoc # EmptyCreds),
                                 !.invoked = Launched(OnlyKey(creds, platform))]]
    /\ UNCHANGED <<credsDoc, metricsDoc, clock, mode, disconnected, notRoute>>

\* await fetchAllPlatformMetrics(testCreds) inside try / catch
SYNC_fetchAll(r) ==
    /\ req[r].op = "sync" /\ req[r].pc = "fetchAll"
    /\ \E out \in ConnOutcomes(req[r].platform, clock) :
        LET testCreds == OnlyKey(req[r].creds, req[r].platform)
            outs == [q \in Platforms |-> out]
            fresh == fetchAllPlatformMetrics(testCreds, outs, clock)
        IN req' = [req EXCEPT ![r] =
             IF fresh.threw
             THEN [Finish(r, ErrorResponse(500, fresh.err)) EXCEPT
                        !.connResult = "threw", !.connError = out.err]
             ELSE [req[r] EXCEPT !.pc = "readMetrics",
                                 !.freshMetrics = fresh.metrics,
                                 !.connResult = IF out.ok THEN "ok" ELSE "threw",
                                 !.connError = out.err]]
    /\ UNCHANGED <<credsDoc, metricsDoc, clock, mode, disconnected, notRoute>>

\* await readJsonBlob(METRICS_PATH); [platform]: freshMetrics[platform] replaces the slot
SYNC_readMetrics(r) ==
    /\ req[r].op = "sync" /\ req[r].pc = "readMetrics"
    /\ \E k \in ReadKinds :
        LET existingMetrics == readJsonBlob(metricsDoc, EmptyMetrics, k)
        IN req' = [req EXCEPT ![r] =
             IF k = "throw" THEN Finish(r, Unhandled(BlobError))
             ELSE [req[r] EXCEPT !.pc = "writeMetrics", !.existingMetrics = existingMetrics,
                                 !.nullRead = (req[r].nullRead \/ (k = "null" /\ metricsDoc # EmptyMetrics)),
                                 !.updatedMetrics =
                                     [slots |-> SetSlot(existingMetrics.slots, req[r].platform,
                                                        req[r].freshMetrics.slots[req[r].platform]),
                                      last_synced_at |-> clock]]]
    /\ UNCHANGED <<credsDoc, metricsDoc, clock, mode, disconnected, notRoute>>

SYNC_writeMetrics(r) ==
    /\ req[r].op = "sync" /\ req[r].pc = "writeMetrics"
    /\ \E k \in WriteKinds :
        /\ metricsDoc' = writeJsonBlob(metricsDoc, req[r].updatedMetrics, k)
        /\ req' = [req EXCEPT ![r] =
             IF k = "throw" THEN Finish(r, Unhandled(BlobError))
             ELSE [Finish(r, OkResponse(buildPlatformStatuses(req[r].creds, req[r].updatedMetrics))) EXCEPT
                        !.changedMetrics = (metricsDoc' # metricsDoc),
                        !.staleMetrics = (req[r].existingMetrics # metricsDoc)]]
    /\ UNCHANGED <<credsDoc, clock, mode, disconnected, notRoute>>

(* ------------- DELETE /api/platforms/[platform]  (disconnect) --------- *)
\* variant: the key is not taken out
Remaining_keep(obj, p) == obj

\* const { [platform]: _removed, ...remaining } = obj
Remaining(obj, p) == [q \in Platforms |-> IF q = p THEN None ELSE obj[q]]

\* the route takes any path segment as the platform; "last_synced_at" is the
\* one key of the metrics document that is not a platform
StampKey == "last_synced_at"
\* const { [platform]: _removedMetric, ...remainingMetrics } = metrics
RemainingMetrics(metrics, p) ==
    [slots |-> Remaining(metrics.slots, p),
     last_synced_at |-> IF p = StampKey THEN NoStamp ELSE metrics.last_synced_at]

DELETE_begin(r) ==
    /\ \E p \in Params \cup {StampKey} : Begin(r, "disconnect", p, None, "readCreds", NoResponse)
    /\ UNCHANGED <<credsDoc, metricsDoc, clock, mode, disconnected, notRoute>>

DELETE_readCreds(r) ==
    /\ req[r].op = "disconnect" /\ req[r].pc = "readCreds"
    /\ \E k \in ReadKinds :
        req' = [req EXCEPT ![r] =
             IF k = "throw" THEN Finish(r, Unhandled(BlobError))
             ELSE [req[r] EXCEPT !.pc = "readMetrics", !.nullRead = (k = "null" /\ credsDoc # EmptyCreds),
                                 !.creds = readJsonBlob(credsDoc, EmptyCreds, k)]]
    /\ UNCHANGED <<credsDoc, metricsDoc, clock, mode, disconnected, notRoute>>

DELETE_readMetrics(r) ==
    /\ req[r].op = "disconnect" /\ req[r].pc = "readMetrics"
    /\ \E k \in ReadKinds :
        LET metrics == readJsonBlob(metricsDoc, EmptyMetrics, k)
        IN req' = [req EXCEPT ![r] =
             IF k = "throw" THEN Finish(r, Unhandled(BlobError))
             ELSE [req[r] EXCEPT !.pc = "writeCreds", !.nullRead = (req[r].nullRead \/ (k = "null" /\ metricsDoc # EmptyMetrics)),
                                 !.existingMetrics = metrics,
                                 !.updatedCreds = Remaining(req[r].creds, req[r].platform),
                                 !.updatedMetrics = RemainingMetrics(metrics, req[r].platform)]]
    /\ UNCHANGED <<credsDoc, metricsDoc, clock, mode, disconnected, notRoute>>

DELETE_writeCreds(r) ==
    /\ req[r].op = "disconnect" /\ req[r].pc = "writeCreds"
    /\ \E k \in WriteKinds :
        /\ credsDoc' = writeJsonBlob(credsDoc, req[r].updatedCreds, k)
        /\ req' = [req EXCEPT ![r] =
             IF k = "throw" THEN Finish(r, Unhandled(BlobError))
             ELSE [req[r] EXCEPT !.pc = "writeMetrics",
                                 !.changedCreds = (credsDoc' # credsDoc),
                                 !.staleCreds = (req[r].creds # credsDoc)]]
    /\ UNCHANGED <<metricsDoc, clock, mode, disconnected, notRoute>>

DELETE_writeMetrics(r) ==
    /\ req[r].op = "disconnect" /\ req[r].pc = "writeMetrics"
    /\ \E k \in WriteKinds :
        /\ metricsDoc' = writeJsonBlob(metricsDoc, req[r].updatedMetrics, k)
        /\ req' = [req EXCEPT ![r] =
             IF k = "throw" THEN Finish(r, Unhandled(BlobError))
             ELSE [Finish(r, OkResponse(buildPlatformStatuses(req[r].updatedCreds,
                                                              req[r].updatedMetrics))) EXCEPT
                        !.changedMetrics = (metricsDoc' # metricsDoc),
                        !.staleMetrics = (req[r].existingMetrics # metricsDoc)]]
        /\ disconnected' = [p \in Platforms |->
                              IF k = "ok" /\ p = req[r].platform /\ ~req[r].overlapped
                              THEN TRUE ELSE disconnected[p]]
    /\ UNCHANGED <<credsDoc, clock, mode, notRoute>>

(* ------------------- GET /api/platforms  (listStatuses) --------------- *)
\* { statuses, last_synced_at: metrics.last_synced_at }
ListResponse(creds, metrics) ==
    [OkResponse(buildPlatformStatuses(creds, metrics)) EXCEPT
        !.last_synced_at = metrics.last_synced_at]

GET_begin(r) ==
    /\ Begin(r, "list", "", None, "readCreds", NoResponse)
    /\ UNCHANGED <<credsDoc, metricsDoc, clock, mode, disconnected, notRoute>>

GET_readCreds(r) ==
    /\ req[r].op = "list" /\ req[r].pc = "readCreds"
    /\ \E k \in ReadKinds :
        req' = [req EXCEPT ![r] =
             IF k = "throw" THEN Finish(r, Unhandled(BlobError))
             ELSE [req[r] EXCEPT !.pc = "readMetrics", !.nullRead = (k = "null" /\ credsDoc # EmptyCreds),
                                 !.creds = readJsonBlob(credsDoc, EmptyCreds, k)]]
    /\ UNCHANGED <<credsDoc, metricsDoc, clock, mode, disconnected, notRoute>>

GET_readMetrics(r) ==
    /\ req[r].op = "list" /\ req[r].pc = "readMetrics"
    /\ \E k \in ReadKinds :
        LET metrics == readJsonBlob(metricsDoc, EmptyMetrics, k)
        IN req' = [req EXCEPT ![r] =
             IF k = "throw" THEN Finish(r, Unhandled(BlobError))
             ELSE [Finish(r, ListResponse(req[r].creds, metrics)) EXCEPT
                        !.nullRead = (req[r].nullRead \/ (k = "null" /\ metricsDoc # EmptyMetrics))]]
    /\ UNCHANGED <<credsDoc, metricsDoc, clock, mode, disconnected, notRoute>>

(* --------- getPromptContext: the report routes' platform section ------ *)
\* platformMetrics ? buildPlatformMetricsSummary(platformMetrics) : ""
PromptSection(doc, k) == IF k = "ok" THEN buildPlatformMetricsSummary(doc) ELSE <<>>

PROMPT_begin(r) ==
    /\ Begin(r, "prompt", "", None, "readMetrics", NoResponse)
    /\ UNCHANGED <<credsDoc, metricsDoc, clock, mode, disconnected, notRoute>>

PROMPT_readMetrics(r) ==
    /\ req[r].op = "prompt" /\ req[r].pc = "readMetrics"
    /\ \E k \in ReadKinds :
        req' = [req EXCEPT ![r] =
             IF k = "throw" THEN Finish(r, Unhandled(BlobError))
             ELSE [Finish(r, TextResponse(PromptSection(metricsDoc, k))) EXCEPT !.nullRead = (req[r].nullRead \/ (k = "null" /\ metricsDoc # EmptyMetrics))]]
    /\ UNCHANGED <<credsDoc, metricsDoc, clock, mode, disconnected, notRoute>>

\* time passes
Tick ==
    /\ clock < MaxClock
    /\ clock' = clock + 1
    /\ UNCHANGED <<credsDoc, metricsDoc, req, mode, disconnected, agg, conn, calc, ingest>>

(* ------------- fetchAllPlatformMetrics, one task at a time ------------ *)
\* no connector run is being followed
ConnOff == [pc |-> "off"]
\* no ingestion run is being followed
IngestOff == [phase |-> "off"]
CalcOff == [pc |-> "off"]

AggOff ==
    [pc |-> "off", creds |-> EmptyCreds, pending |-> {}, results |-> EmptyMetrics,
     rejected |-> FALSE,
     \* history: how each launched connector ended
     out |-> [p \in Platforms |-> ConnFail("")], settled |-> {}]

\* the tasks are pushed: every launched connector is now running
AGG_launch ==
    /\ agg.pc = "call"
    /\ agg' = [agg EXCEPT !.pc = "waiting", !.pending = Launched(agg.creds)]
    /\ UNCHANGED <<clock, notAgg>>

\* one connector settles and its then / catch handlers run
AGG_settle(p) ==
    /\ agg.pc = "waiting" /\ p \in agg.pending
    /\ \E o \in ConnOutcomes(p, clock) :
        LET t == TaskSettle(agg.results, p, o)
        IN agg' = [agg EXCEPT !.pending = @ \ {p}, !.results = t.results,
                              !.rejected = @ \/ t.rejected,
                              !.out[p] = o, !.settled = @ \cup {p}]
    /\ UNCHANGED <<clock, notAgg>>

\* Promise.all settles once every task has: stamp and return, or rethrow
AGG_return ==
    /\ agg.pc = "waiting" /\ agg.pending = {}
    /\ agg' = IF agg.rejected THEN [agg EXCEPT !.pc = "threw"]
              ELSE [agg EXCEPT !.pc = "returned", !.results.last_synced_at = clock]
    /\ UNCHANGED <<clock, notAgg>>

StoredCredentials == {c \in [Platforms -> SUBSET CredVals] : \A p \in Platforms : Cardinality(c[p]) <= 1}

InitAgg ==
    /\ credsDoc = EmptyCreds
    /\ metricsDoc = EmptyMetrics
    /\ req = [r \in Reqs |-> IdleReq]
    /\ clock = 0
    /\ mode = "isolated"
    /\ ingest = IngestOff
    /\ disconnected = [p \in Platforms |-> FALSE]
    /\ conn = ConnOff
    /\ calc = CalcOff
    /\ \E c \in StoredCredentials : agg = [AggOff EXCEPT !.pc = "call", !.creds = c]

NextAgg ==
    \/ Tick
    \/ AGG_launch
    \/ \E p \in Platforms : AGG_settle(p)
    \/ AGG_return

SpecAgg == InitAgg /\ [][NextAgg]_vars

(* ------------------- the connectors, one call at a time --------------- *)
\* the data calls of each connector, in the order of its Promise.all (the first
\* one supplies the headline numbers)
MailchimpCalls == <<"list", "reports", "growth", "automations">>
WooCalls == <<"sales30", "sales12m", "customers", "newCust30", "newCust12m", "products",
              "refunds30", "refunds12m", "currency", "topSellers", "orders1", "orders2">>
GACalls == <<"summary", "channels", "devices", "landing", "annual">>
GAdsCalls == <<"search">>

DataCalls(p) ==
    IF p = "mailchimp" THEN MailchimpCalls
    ELSE IF p = "woocommerce" THEN WooCalls
    ELSE IF p = "google_analytics" THEN GACalls
    ELSE GAdsCalls
Primary(p) == DataCalls(p)[1]
Range(seq) == {seq[i] : i \in 1..Len(seq)}
Secondaries(p) == Range(DataCalls(p)) \ {Primary(p)}

\* calls made before the data calls: the list lookup when no list_id is
\* configured, the token exchange of the two Google connectors
PreCalls(p, listId) ==
    IF p = "mailchimp" THEN (IF listId THEN {} ELSE {"lists"})
    ELSE IF p \in {"google_analytics", "google_ads"} THEN {"token"}
    ELSE {}

\* how a vendor can answer a call other than with a 2xx and a good body
WooHeaderCalls == {"customers", "newCust30", "newCust12m", "products", "refunds30", "refunds12m"}
FaultKinds(c) ==
    IF c = "token" THEN {"ok_notoken", "http_text", "http_notext", "reject", "badbody"}
    ELSE IF c = "lists" THEN {"ok_empty", "http", "reject", "badbody"}
    ELSE IF c \in WooHeaderCalls THEN {"http", "reject"}    \* only the header is read
    ELSE {"http", "reject", "badbody"}
AllFaultKinds == {"ok_notoken", "ok_empty", "http_text", "http_notext", "http", "reject", "badbody"}

\* the vendor's answers to one run: at most MaxFaults calls go wrong
Fixtures(calls) ==
    {[c \in calls |-> IF c \in DOMAIN f THEN f[c] ELSE "ok"] :
        f \in UNION {{g \in [S -> AllFaultKinds] : \A c \in S : g[c] \in FaultKinds(c)} :
                        S \in {T \in SUBSET calls : Cardinality(T) <= MaxFaults}}}

ConnError(e) == [ok |-> FALSE, fields |-> <<>>, error |-> e]

\* getAccessToken (web analytics): await tokenRes.json() with no catch, then
\* the !ok check, then tokenData.access_token whatever it is
getAccessToken(kind) ==
    IF kind = "reject" THEN [threw |-> TRUE, err |-> "network", token |-> None]
    ELSE IF kind = "badbody" THEN [threw |-> TRUE, err |-> "parse", token |-> None]
    ELSE IF kind = "http_text" THEN [threw |-> TRUE, err |-> "vendor", token |-> None]
    ELSE IF kind = "http_notext" THEN [threw |-> TRUE, err |-> "undefined", token |-> None]
    ELSE IF kind = "ok" THEN [threw |-> FALSE, err |-> "", token |-> Some("token")]
    ELSE [threw |-> FALSE, err |-> "", token |-> None]

\* refreshAccessToken (paid ads): res.json().catch(() => ({})), then the !ok
\* check, then data.access_token whatever it is
refreshAccessToken(kind) ==
    IF kind = "reject" THEN [threw |-> TRUE, err |-> "network", token |-> None]
    ELSE IF kind = "http_text" THEN [threw |-> TRUE, err |-> "vendor", token |-> None]
    ELSE IF kind = "http_notext" THEN [threw |-> TRUE, err |-> "undefined", token |-> None]
    ELSE IF kind = "ok" THEN [threw |-> FALSE, err |-> "", token |-> Some("token")]
    ELSE [threw |-> FALSE, err |-> "", token |-> None]

\* how each response is read once Promise.all has resolved:
\*   "strict"  : !res.ok throws, await res.json() throws on a bad body
\*   "lenient" : !res.ok throws, res.json().catch(...) gives the default
\*   "guarded" : res.ok ? await res.json() : default  (a bad body throws)
\*   "caught"  : res.ok, then res.json().catch(...)   (never throws)
\*   "header"  : res.ok ? getTotal(res) : 0           (the body is not read)
MailchimpMode(c) == IF c = "list" THEN "strict" ELSE "guarded"
WooMode(c) ==
    IF c = "sales30" THEN "lenient"
    ELSE IF c \in WooHeaderCalls THEN "header"
    ELSE "caught"
GAMode(c) ==
    IF c = "summary" THEN "strict"
    ELSE IF c = "annual" THEN "caught"
    ELSE "guarded"
GAdsMode(c) == "lenient"

ParseMode(p, c) ==
    IF p = "mailchimp" THEN MailchimpMode(c)
    ELSE IF p = "woocommerce" THEN WooMode(c)
    ELSE IF p = "google_analytics" THEN GAMode(c)
    ELSE GAdsMode(c)

\* what one response contributes: its data, the default value, or a throw
CallOutcome(m, kind) ==
    IF kind = "ok" THEN "data"
    ELSE IF kind = "http" THEN (IF m \in {"strict", "lenient"} THEN "throw_http" ELSE "default")
    ELSE IF kind = "badbody"
         THEN (IF m \in {"strict", "guarded"} THEN "throw_parse"
               ELSE IF m = "header" THEN "data" ELSE "default")
    ELSE "throw_network"

\* the responses are read in source order; the first throw ends the fetch
RECURSIVE ParseFrom(_, _, _, _)
ParseFrom(p, fx, i, fields) ==
    IF i > Len(DataCalls(p)) THEN [ok |-> TRUE, fields |-> fields, error |-> ""]
    ELSE LET c == DataCalls(p)[i]
             o == CallOutcome(ParseMode(p, c), fx[c])
         IN IF o \in {"data", "default"}
            THEN ParseFrom(p, fx, i + 1, [d \in DOMAIN fields \cup {c} |-> IF d = c THEN o ELSE fields[d]])
            ELSE ConnError(o)

FirstStep(p, listId) ==
    IF p \in {"google_analytics", "google_ads"} THEN "auth"
    ELSE IF p = "mailchimp" /\ ~listId THEN "select"
    ELSE "fanout"

\* auth resolution of the two Google connectors
CONN_auth ==
    /\ conn.pc = "auth"
    /\ conn' =
         IF conn.platform = "google_analytics" /\ ~conn.saValid
         THEN [conn EXCEPT !.pc = "done", !.result = ConnError("service_account")]
         ELSE LET t == IF conn.platform = "google_analytics"
                       THEN getAccessToken(conn.fx["token"])
                       ELSE refreshAccessToken(conn.fx["token"])
              IN IF t.threw
                 THEN [conn EXCEPT !.pc = "done", !.issued = Append(@, "token"),
                                   !.result = ConnError(t.err)]
                 ELSE [conn EXCEPT !.pc = "fanout", !.issued = Append(@, "token"),
                                   !.token = t.token]
    /\ UNCHANGED notConn

\* email marketing, no list_id configured: list the lists and pick one
CONN_select ==
    /\ conn.pc = "select"
    /\ LET kind == conn.fx["lists"]
       IN conn' =
            IF kind = "ok"
            THEN [conn EXCEPT !.pc = "fanout", !.issued = Append(@, "lists")]
            ELSE [conn EXCEPT !.pc = "done", !.issued = Append(@, "lists"),
                              !.result = ConnError(IF kind = "reject" THEN "network"
                                                   ELSE IF kind = "http" THEN "vendor"
                                                   ELSE IF kind = "badbody" THEN "parse"
                                                   ELSE "none_found")]
    /\ UNCHANGED notConn

\* the data calls are issued together; Promise.all rejects if any fetch rejects
CONN_fanout ==
    /\ conn.pc = "fanout"
    /\ conn' =
         IF \E c \in Range(DataCalls(conn.platform)) : conn.fx[c] = "reject"
         THEN [conn EXCEPT !.pc = "done", !.issued = @ \o DataCalls(conn.platform),
                           !.result = ConnError("throw_network")]
         ELSE [conn EXCEPT !.pc = "parse", !.issued = @ \o DataCalls(conn.platform)]
    /\ UNCHANGED notConn

\* the responses are parsed and the record is built
CONN_parse ==
    /\ conn.pc = "parse"
    /\ conn' = [conn EXCEPT !.pc = "done",
                            !.result = ParseFrom(conn.platform, conn.fx, 1, <<>>)]
    /\ UNCHANGED notConn

InitConn ==
    /\ credsDoc = EmptyCreds
    /\ metricsDoc = EmptyMetrics
    /\ req = [r \in Reqs |-> IdleReq]
    /\ clock = 0
    /\ mode = "isolated"
    /\ ingest = IngestOff
    /\ disconnected = [p \in Platforms |-> FALSE]
    /\ agg = AggOff
    /\ calc = CalcOff
    /\ \E p \in Platforms : \E listId \in BOOLEAN : \E saValid \in BOOLEAN :
         \E fx \in Fixtures(PreCalls(p, listId) \cup Range(DataCalls(p))) :
            /\ p # "mailchimp" => listId
            /\ p # "google_analytics" => saValid
            /\ conn = [pc |-> FirstStep(p, listId), platform |-> p, listId |-> listId,
                       saValid |-> saValid, fx |-> fx, issued |-> <<>>, token |-> None,
                       result |-> ConnError("")]

NextConn ==
    \/ CONN_auth
    \/ CONN_select
    \/ CONN_fanout
    \/ CONN_parse

SpecConn == InitConn /\ [][NextConn]_vars

Init ==
    /\ credsDoc = EmptyCreds
    /\ metricsDoc = EmptyMetrics
    /\ req = [r \in Reqs |-> IdleReq]
    /\ clock = 0
    /\ mode = "isolated"
    /\ ingest = IngestOff
    /\ disconnected = [p \in Platforms |-> FALSE]
    /\ agg = AggOff
    /\ conn = ConnOff
    /\ calc = CalcOff

Next ==
    \/ Tick
    \/ \E r \in Reqs : POST_parse(r)
    \/ \E r \in Reqs : POST_readCreds(r)
    \/ \E r \in Reqs : POST_test(r)
    \/ \E r \in Reqs : POST_writeCreds(r)
    \/ \E r \in Reqs : POST_readMetrics(r)
    \/ \E r \in Reqs : POST_writeMetrics(r)
    \/ \E r \in Reqs : SYNC_begin(r)
    \/ \E r \in Reqs : SYNC_readCreds(r)
    \/ \E r \in Reqs : SYNC_fetchAll(r)
    \/ \E r \in Reqs : SYNC_readMetrics(r)
    \/ \E r \in Reqs : SYNC_writeMetrics(r)
    \/ \E r \in Reqs : DELETE_begin(r)
    \/ \E r \in Reqs : DELETE_readCreds(r)
    \/ \E r \in Reqs : DELETE_readMetrics(r)
    \/ \E r \in Reqs : DELETE_writeCreds(r)
    \/ \E r \in Reqs : DELETE_writeMetrics(r)
    \/ \E r \in Reqs : GET_begin(r)
    \/ \E r \in Reqs : GET_readCreds(r)
    \/ \E r \in Reqs : GET_readMetrics(r)
    \/ \E r \in Reqs : PROMPT_begin(r)
    \/ \E r \in Reqs : PROMPT_readMetrics(r)

Spec == Init /\ [][Next]_vars

\* overlapping connects: every slot serves one connect request, and the
\* handlers' steps interleave freely
InitRace ==
    /\ credsDoc = EmptyCreds
    /\ metricsDoc = EmptyMetrics
    /\ req = [r \in Reqs |-> IdleReq]
    /\ clock = 0
    /\ mode = "overlap"
    /\ ingest = IngestOff
    /\ disconnected = [p \in Platforms |-> FALSE]
    /\ agg = AggOff
    /\ conn = ConnOff
    /\ calc = CalcOff

NextRace ==
    \/ \E r \in Reqs : POST_parse(r)
    \/ \E r \in Reqs : POST_readCreds(r)
    \/ \E r \in Reqs : POST_test(r)
    \/ \E r \in Reqs : POST_writeCreds(r)
    \/ \E r \in Reqs : POST_readMetrics(r)
    \/ \E r \in Reqs : POST_writeMetrics(r)

SpecRace == InitRace /\ [][NextRace]_vars

\* a disconnect and its observers: the documents are as successful connects
\* left them (credential and record stored together), and disconnects and
\* listStatuses requests run side by side, one per slot
ConnectedDocs(S) ==
    [creds |-> [p \in Platforms |-> IF p \in S THEN Some("credA") ELSE None],
     metrics |-> [slots |-> [p \in Platforms |->
                               IF p \in S THEN ConnOk(p, "d1", 0).rec ELSE None],
                  last_synced_at |-> IF S = {} THEN NoStamp ELSE 0]]

InitObs ==
    /\ \E S \in SUBSET UsedPlatforms :
         /\ credsDoc = ConnectedDocs(S).creds
         /\ metricsDoc = ConnectedDocs(S).metrics
    /\ req = [r \in Reqs |-> IdleReq]
    /\ clock = 0
    /\ mode = "overlap"
    /\ ingest = IngestOff
    /\ disconnected = [p \in Platforms |-> FALSE]
    /\ agg = AggOff
    /\ conn = ConnOff
    /\ calc = CalcOff

NextObs ==
    \/ \E r \in Reqs : DELETE_begin(r)
    \/ \E r \in Reqs : DELETE_readCreds(r)
    \/ \E r \in Reqs : DELETE_readMetrics(r)
    \/ \E r \in Reqs : DELETE_writeCreds(r)
    \/ \E r \in Reqs : DELETE_writeMetrics(r)
    \/ \E r \in Reqs : GET_begin(r)
    \/ \E r \in Reqs : GET_readCreds(r)
    \/ \E r \in Reqs : GET_readMetrics(r)

SpecObs == InitObs /\ [][NextObs]_vars

\* connects, syncs and disconnects side by side, one per slot, while time
\* passes, starting from documents as successful connects left them
NextMix ==
    \/ Tick
    \/ \E r \in Reqs : POST_parse(r)
    \/ \E r \in Reqs : POST_readCreds(r)
    \/ \E r \in Reqs : POST_test(r)
    \/ \E r \in Reqs : POST_writeCreds(r)
    \/ \E r \in Reqs : POST_readMetrics(r)
    \/ \E r \in Reqs : POST_writeMetrics(r)
    \/ \E r \in Reqs : SYNC_begin(r)
    \/ \E r \in Reqs : SYNC_readCreds(r)
    \/ \E r \in Reqs : SYNC_fetchAll(r)
    \/ \E r \in Reqs : SYNC_readMetrics(r)
    \/ \E r \in Reqs : SYNC_writeMetrics(r)
    \/ \E r \in Reqs : DELETE_begin(r)
    \/ \E r \in Reqs : DELETE_readCreds(r)
    \/ \E r \in Reqs : DELETE_readMetrics(r)
    \/ \E r \in Reqs : DELETE_writeCreds(r)
    \/ \E r \in Reqs : DELETE_writeMetrics(r)

SpecMix == InitObs /\ [][NextMix]_vars

(* --------------- DriveIngestion: handleStartIngestion ----------------- *)
CONCURRENCY == 6
Terminal == {"done", "skipped", "error"}
\* how one analyze-file request ends: a finding, { skipped: true }, a non-2xx
\* or { error } answer, or a rejected fetch / unreadable body
AnalyzeOutcomes == {"finding", "skipped", "http_error", "rejected"}

\* variant: the whole list is one chunk
Chunk_all(i, n) == (i + 1)..n

\* files.slice(i, i + CONCURRENCY), as positions of the list
Chunk(i, n) == (i + 1)..Min(i + CONCURRENCY, n)

\* the for loop from its head: the next chunk's tasks run up to their fetch
\* (every file of the chunk is set to analyzing and its request is sent), or,
\* past the last chunk, the phase is set and the synthesize request goes out
LoopHead(st) ==
    IF st.i < st.n
    THEN [st EXCEPT !.pc = "chunk",
                    !.status = [f \in 1..st.n |->
                                  IF f \in Chunk(st.i, st.n) THEN "analyzing" ELSE st.status[f]],
                    !.chunk = Chunk(st.i, st.n)]
    ELSE [st EXCEPT !.pc = "synthesize", !.phase = "synthesizing", !.chunk = {},
                    !.allFindings = st.accumulated, !.synthSent = TRUE]

\* the listing has returned n files and the component waits for the user
InitIngest ==
    /\ credsDoc = EmptyCreds
    /\ metricsDoc = EmptyMetrics
    /\ req = [r \in Reqs |-> IdleReq]
    /\ clock = 0
    /\ mode = "isolated"
    /\ disconnected = [p \in Platforms |-> FALSE]
    /\ agg = AggOff
    /\ conn = ConnOff
    /\ calc = CalcOff
    /\ \E n \in 0..MaxFiles :
         ingest = [phase |-> "confirming", pc |-> "idle", n |-> n, i |-> 0,
                   status |-> [f \in 1..n |-> "none"], chunk |-> {},
                   accumulated |-> {}, allFindings |-> {}, synthSent |-> FALSE]

\* the user starts the run: phase processing, every file pending, first chunk
handleStartIngestion ==
    /\ ingest.phase = "confirming"
    /\ ingest' = LoopHead([ingest EXCEPT !.phase = "processing",
                                         !.accumulated = {},
                                         !.status = [f \in 1..ingest.n |-> "pending"]])
    /\ UNCHANGED notIngest

\* one analyze-file request settles and its task runs to its end
INGEST_settle(f) ==
    /\ ingest.pc = "chunk"
    /\ f \in ingest.chunk /\ ingest.status[f] = "analyzing"
    /\ \E out \in AnalyzeOutcomes :
         ingest' = [ingest EXCEPT
                       !.status[f] = IF out = "finding" THEN "done"
                                     ELSE IF out = "skipped" THEN "skipped" ELSE "error",
                       !.accumulated = IF out = "finding" THEN ingest.accumulated \cup {f}
                                       ELSE ingest.accumulated]
    /\ UNCHANGED notIngest

\* Promise.allSettled resolves once every task of the chunk has settled; the
\* loop goes on with i += CONCURRENCY
INGEST_afterChunk ==
    /\ ingest.pc = "chunk"
    /\ \A f \in ingest.chunk : ingest.status[f] # "analyzing"
    /\ ingest' = LoopHead([ingest EXCEPT !.i = ingest.i + CONCURRENCY])
    /\ UNCHANGED notIngest

\* the synthesize request settles: on success the drive-folder save is sent
INGEST_synthesized ==
    /\ ingest.pc = "synthesize"
    /\ \E ok \in BOOLEAN :
         ingest' = IF ok THEN [ingest EXCEPT !.pc = "save"]
                   ELSE [ingest EXCEPT !.pc = "end", !.phase = "error"]
    /\ UNCHANGED notIngest

\* the drive-folder save settles
INGEST_saved ==
    /\ ingest.pc = "save"
    /\ \E ok \in BOOLEAN :
         ingest' = [ingest EXCEPT !.pc = "end", !.phase = IF ok THEN "done" ELSE "error"]
    /\ UNCHANGED notIngest

NextIngest ==
    \/ handleStartIngestion
    \/ \E f \in 1..MaxFiles : INGEST_settle(f)
    \/ INGEST_afterChunk
    \/ INGEST_synthesized
    \/ INGEST_saved

SpecIngest == InitIngest /\ [][NextIngest]_vars

\* every request the browser has sent settles in the end, and a continuation
\* that is ready to run is run by the event loop
SpecIngestLive ==
    /\ SpecIngest
    /\ \A f \in 1..MaxFiles : WF_vars(INGEST_settle(f))
    /\ WF_vars(handleStartIngestion)
    /\ WF_vars(INGEST_afterChunk)

(* ====================================================================== *)
(*                               Properties                               *)

(* ------------------- pure functions, one evaluation ------------------- *)
\* every credentials document and every metrics document over the platforms
AllCredsDocs == [Platforms -> {None} \cup {Some(c) : c \in CredVals}]
RecordsOf(p) == {ConnOk(p, d, t).rec : d \in DataVals, t \in Times}
AllMetricsDocs ==
    {[slots |-> sl, last_synced_at |-> t] :
        sl \in {f \in [Platforms -> UNION {RecordsOf(p) : p \in Platforms} \cup {None}] :
                  \A p \in Platforms : f[p] \in RecordsOf(p) \cup {None}},
        t \in Times \cup {NoStamp}}

\* buildPlatformStatuses applied to any pair of documents
InitStat ==
    /\ credsDoc = EmptyCreds
    /\ metricsDoc = EmptyMetrics
    /\ req = [r \in Reqs |-> IdleReq]
    /\ clock = 0
    /\ mode = "isolated"
    /\ ingest = IngestOff
    /\ disconnected = [p \in Platforms |-> FALSE]
    /\ agg = AggOff
    /\ conn = ConnOff
    /\ \E c \in AllCredsDocs : \E m \in AllMetricsDocs :
         calc = [pc |-> "in", fn |-> "buildPlatformStatuses", creds |-> c, metrics |-> m]

CALC_statuses ==
    /\ calc.pc = "in" /\ calc.fn = "buildPlatformStatuses"
    /\ calc' = [pc |-> "out", fn |-> calc.fn, creds |-> calc.creds, metrics |-> calc.metrics,
                out |-> buildPlatformStatuses(calc.creds, calc.metrics)]
    /\ UNCHANGED notCalc

NextStat == CALC_statuses

SpecStat == InitStat /\ [][NextStat]_vars

\* buildPlatformMetricsSummary applied to any metrics document
InitSum ==
    /\ credsDoc = EmptyCreds
    /\ metricsDoc = EmptyMetrics
    /\ req = [r \in Reqs |-> IdleReq]
    /\ clock = 0
    /\ mode = "isolated"
    /\ ingest = IngestOff
    /\ disconnected = [p \in Platforms |-> FALSE]
    /\ agg = AggOff
    /\ conn = ConnOff
    /\ \E m \in AllMetricsDocs :
         calc = [pc |-> "in", fn |-> "buildPlatformMetricsSummary", metrics |-> m]

CALC_summary ==
    /\ calc.pc = "in" /\ calc.fn = "buildPlatformMetricsSummary"
    /\ calc' = [pc |-> "out", fn |-> calc.fn, metrics |-> calc.metrics,
                out |-> buildPlatformMetricsSummary(calc.metrics)]
    /\ UNCHANGED notCalc

NextSum == CALC_summary

SpecSum == InitSum /\ [][NextSum]_vars

(* ------------- email marketing: which list the fetch uses ------------- *)
\* a list as the vendor returns it: its id is its position in the response,
\* stats.member_count may be missing
MemberCounts == {None} \cup {Some(n) : n \in 0..MaxCount}
ListResponses == UNION {[1..n -> MemberCounts] : n \in 0..MaxLists}
VendorLists(counts) == [i \in 1..Len(counts) |-> [id |-> i, member_count |-> counts[i]]]
\* a.stats?.member_count ?? 0
CountOf(l) == IF l.member_count = None THEN 0 ELSE TheOne(l.member_count)

\* variant: an element goes in front of the elements that compare equal to it
InsertDesc_unstable(sorted, x) ==
    LET k == Cardinality({i \in 1..Len(sorted) : CountOf(sorted[i]) > CountOf(x)})
    IN SubSeq(sorted, 1, k) \o <<x>> \o SubSeq(sorted, k + 1, Len(sorted))

\* lists.sort((a, b) => count(b) - count(a)): Array.prototype.sort is stable,
\* so an element stays behind the earlier elements that compare equal to it
InsertDesc(sorted, x) ==
    LET k == Cardinality({i \in 1..Len(sorted) : CountOf(sorted[i]) >= CountOf(x)})
    IN SubSeq(sorted, 1, k) \o <<x>> \o SubSeq(sorted, k + 1, Len(sorted))

RECURSIVE SortLists(_, _)
SortLists(lists, n) ==
    IF n = 0 THEN <<>> ELSE InsertDesc(SortLists(lists, n - 1), lists[n])

\* step 1 of fetchMailchimpMetrics: listId = creds.list_id ?? ""; if (!listId) ...
ListIds == {None, Some(""), Some("configured")}
ResolveList(list_id, lists) ==
    IF list_id # None /\ list_id # Some("")
    THEN [listed |-> FALSE, threw |-> FALSE, err |-> "", listId |-> list_id]
    ELSE IF Len(lists) = 0
    THEN [listed |-> TRUE, threw |-> TRUE, err |-> "No Mailchimp lists found in this account",
          listId |-> None]
    ELSE [listed |-> TRUE, threw |-> FALSE, err |-> "",
          listId |-> Some(SortLists(lists, Len(lists))[1].id)]

InitList ==
    /\ credsDoc = EmptyCreds
    /\ metricsDoc = EmptyMetrics
    /\ req = [r \in Reqs |-> IdleReq]
    /\ clock = 0
    /\ mode = "isolated"
    /\ ingest = IngestOff
    /\ disconnected = [p \in Platforms |-> FALSE]
    /\ agg = AggOff
    /\ conn = ConnOff
    /\ \E id \in ListIds : \E counts \in ListResponses :
         calc = [pc |-> "in", fn |-> "ResolveList", list_id |-> id, lists |-> VendorLists(counts)]

CALC_resolveList ==
    /\ calc.pc = "in" /\ calc.fn = "ResolveList"
    /\ calc' = [pc |-> "out", fn |-> calc.fn, list_id |-> calc.list_id, lists |-> calc.lists,
                out |-> ResolveList(calc.list_id, calc.lists)]
    /\ UNCHANGED notCalc

NextList == CALC_resolveList

SpecList == InitList /\ [][NextList]_vars

(* ---------- email marketing: open rate and top campaigns -------------- *)
\* a campaign report: whether its send_time falls in the trailing 30 days and
\* its report_summary.open_rate, which may be missing
Rates == {None} \cup {Some(n) : n \in 0..MaxRate}
ReportKinds == [inWindow : BOOLEAN, open_rate : Rates]
Runs == [kind : ReportKinds, times : 1..MaxRepeat]
RunSeqs == UNION {[1..n -> Runs] : n \in 0..MaxRuns}
RECURSIVE Expand(_, _)
Expand(runs, n) ==
    IF n = 0 THEN <<>>
    ELSE Expand(runs, n - 1) \o [i \in 1..runs[n].times |-> runs[n].kind]
\* the reports array, each report with its id
Reports(runs) ==
    LET flat == Expand(runs, Len(runs))
    IN [i \in 1..Len(flat) |-> [id |-> i, inWindow |-> flat[i].inWindow, open_rate |-> flat[i].open_rate]]

\* r.report_summary?.open_rate ?? 0
RateOf(r) == IF r.open_rate = None THEN 0 ELSE TheOne(r.open_rate)
InWindow(r) == r.inWindow
RECURSIVE SumRates(_, _)
SumRates(rs, n) == IF n = 0 THEN 0 ELSE SumRates(rs, n - 1) + RateOf(rs[n])

\* variant: no fallback to the list average
OpenRate_noFallback(reports, avg) ==
    LET reports30d == SelectSeq(reports, InWindow)
        n30 == Len(reports30d)
    IN IF n30 > 0 THEN [num |-> SumRates(reports30d, n30), den |-> n30]
       ELSE [num |-> 0, den |-> 1]

\* openRate = n30 > 0 ? sumOpen / n30 : (stats.avg_open_rate ?? 0), kept as a fraction
OpenRate(reports, avg) ==
    LET reports30d == SelectSeq(reports, InWindow)
        n30 == Len(reports30d)
    IN IF n30 > 0 THEN [num |-> SumRates(reports30d, n30), den |-> n30]
       ELSE [num |-> IF avg = None THEN 0 ELSE TheOne(avg), den |-> 1]

\* threshold = openRate * 1.2 ; open_rate >= threshold
ThresholdNum == 12
ThresholdDen == 10
AtLeastThreshold(rate, openRate) ==
    rate * openRate.den * ThresholdDen >= openRate.num * ThresholdNum

InsertByRate(sorted, x) ==
    LET k == Cardinality({i \in 1..Len(sorted) : RateOf(sorted[i]) >= RateOf(x)})
    IN SubSeq(sorted, 1, k) \o <<x>> \o SubSeq(sorted, k + 1, Len(sorted))
RECURSIVE SortByRate(_, _)
SortByRate(rs, n) == IF n = 0 THEN <<>> ELSE InsertByRate(SortByRate(rs, n - 1), rs[n])

TopN == 10
\* variant: the cap is left out
TopCampaigns_uncapped(reports, openRate) ==
    LET Keep(r) == AtLeastThreshold(RateOf(r), openRate)
        kept == SelectSeq(reports, Keep)
    IN SortByRate(kept, Len(kept))

\* reports.filter(rate >= threshold).sort(descending by rate).slice(0, 10)
TopCampaigns(reports, openRate) ==
    LET Keep(r) == AtLeastThreshold(RateOf(r), openRate)
        kept == SelectSeq(reports, Keep)
        sorted == SortByRate(kept, Len(kept))
    IN SubSeq(sorted, 1, IF Len(sorted) < TopN THEN Len(sorted) ELSE TopN)

InitCamp ==
    /\ credsDoc = EmptyCreds
    /\ metricsDoc = EmptyMetrics
    /\ req = [r \in Reqs |-> IdleReq]
    /\ clock = 0
    /\ mode = "isolated"
    /\ ingest = IngestOff
    /\ disconnected = [p \in Platforms |-> FALSE]
    /\ agg = AggOff
    /\ conn = ConnOff
    /\ \E runs \in RunSeqs : \E avg \in Rates :
         calc = [pc |-> "in", fn |-> "campaigns", reports |-> Reports(runs), avg_open_rate |-> avg]

\* steps 4 of fetchMailchimpMetrics: open_rate and top_campaigns of the record
CALC_campaigns ==
    /\ calc.pc = "in" /\ calc.fn = "campaigns"
    /\ LET openRate == OpenRate(calc.reports, calc.avg_open_rate)
       IN calc' = [pc |-> "out", fn |-> calc.fn, reports |-> calc.reports,
                   avg_open_rate |-> calc.avg_open_rate,
                   open_rate |-> openRate,
                   top_campaigns |-> TopCampaigns(calc.reports, openRate)]
    /\ UNCHANGED notCalc

NextCamp == CALC_campaigns

SpecCamp == InitCamp /\ [][NextCamp]_vars

(* ------------- numbers the connectors derive from responses ----------- *)
\* a JavaScript number: NaN, or a fraction num / den with den > 0
NaN == [nan |-> TRUE, num |-> 0, den |-> 1]
Num(n) == [nan |-> FALSE, num |-> n, den |-> 1]
Zero == Num(0)
IsZero(x) == ~x.nan /\ x.num = 0
\* x > 0 is false for NaN
Positive(x) == ~x.nan /\ x.num > 0
Add(x, y) == IF x.nan \/ y.nan THEN NaN
             ELSE [nan |-> FALSE, num |-> x.num * y.den + y.num * x.den, den |-> x.den * y.den]
Sub(x, y) == IF x.nan \/ y.nan THEN NaN
             ELSE [nan |-> FALSE, num |-> x.num * y.den - y.num * x.den, den |-> x.den * y.den]
\* x / y for y > 0
Div(x, y) == IF x.nan \/ y.nan THEN NaN
             ELSE [nan |-> FALSE, num |-> x.num * y.den, den |-> x.den * y.num]
\* Math.round(x * scale) / scale for x >= 0, in units of 1 / scale
RoundTo(x, scale) ==
    IF x.nan THEN NaN
    ELSE [nan |-> FALSE, num |-> (2 * x.num * scale + x.den) \div (2 * x.den), den |-> scale]

\* y > 0 ? x / y : 0
Ratio(x, y) == IF Positive(y) THEN Div(x, y) ELSE Zero

\* a text the vendor sends where a number is expected: absent, or a text with
\* leading digits (and maybe more after them), or a text with none
Texts == {None} \cup {Some([lead |-> l, more |-> m]) :
                         l \in {None} \cup {Some(n) : n \in 0..MaxNum}, m \in BOOLEAN}
\* parseInt(text ?? "0", 10), parseFloat(text ?? "0"): the leading digits, NaN without any
parseNumber(text) ==
    IF text = None THEN Zero
    ELSE IF TheOne(text).lead = None THEN NaN
    ELSE Num(TheOne(TheOne(text).lead))

\* a number of a JSON body, which may be missing:  x ?? 0
JsonNums == {None} \cup {Some(n) : n \in 0..MaxNum}
OrZero(x) == IF x = None THEN Zero ELSE Num(TheOne(x))

\* getTotal: parseInt(res.headers.get("X-WP-Total") ?? "0", 10)
getTotal(header) == parseNumber(header)

\* customersRes.ok ? getTotal(customersRes) : 0
CountField(ok, header) == IF ok THEN getTotal(header) ELSE Zero

\* storefront: parseSalesReport and the 30-day fields built from it
WooSales(num_orders, total_sales) ==
    LET orders30 == parseNumber(num_orders)
        revenue30 == parseNumber(total_sales)
        aov30 == Ratio(revenue30, orders30)
    IN [fields |-> [total_orders_30d |-> orders30,
                    total_revenue_30d |-> RoundTo(revenue30, 100),
                    aov_30d |-> RoundTo(aov30, 100)],
        ratios |-> {[den |-> orders30, val |-> aov30]}]

\* paid ads: the totals of a one-row response and the ratios built from them
GAdsTotals(row) ==
    LET totalImpressions == parseNumber(row.impressions)
        totalClicks == parseNumber(row.clicks)
        totalSpend == Div(parseNumber(row.cost_micros), Num(1000000))
        totalConversions == parseNumber(row.conversions)
        totalConversionValue == parseNumber(row.conversions_value)
        avgCtr == Ratio(totalClicks, totalImpressions)
        avgCpc == Ratio(totalSpend, totalClicks)
        costPerConversion == Ratio(totalSpend, totalConversions)
        roas30d == Ratio(totalConversionValue, totalSpend)
        conversionRate30d == Ratio(totalConversions, totalClicks)
    IN [fields |-> [total_spend_30d |-> RoundTo(totalSpend, 100),
                    total_clicks_30d |-> totalClicks,
                    total_impressions_30d |-> totalImpressions,
                    avg_ctr |-> RoundTo(avgCtr, 10000),
                    avg_cpc |-> RoundTo(avgCpc, 100),
                    total_conversions_30d |-> RoundTo(totalConversions, 100),
                    cost_per_conversion |-> RoundTo(costPerConversion, 100),
                    total_conversion_value_30d |-> RoundTo(totalConversionValue, 100),
                    roas_30d |-> RoundTo(roas30d, 100),
                    conversion_rate_30d |-> RoundTo(conversionRate30d, 10000)],
        ratios |-> {[den |-> totalImpressions, val |-> avgCtr],
                    [den |-> totalClicks, val |-> avgCpc],
                    [den |-> totalConversions, val |-> costPerConversion],
                    [den |-> totalSpend, val |-> roas30d],
                    [den |-> totalClicks, val |-> conversionRate30d]}]

\* email marketing: click-to-open rate of one campaign in the window and the
\* list growth rate
MailchimpRatios(s) ==
    LET uo == OrZero(s.unique_opens)
        uc == OrZero(s.unique_clicks)
        clickToOpenRate == Ratio(uc, uo)
        newSubs == OrZero(s.subscribed)
        lostSubs == OrZero(s.unsubscribed)
        listSize == OrZero(s.member_count)
        listGrowthRate == Ratio(Sub(newSubs, lostSubs), listSize)
    IN [fields |-> [click_to_open_rate |-> clickToOpenRate,
                    list_size |-> listSize,
                    new_subscribers_30d |-> newSubs,
                    lost_subscribers_30d |-> lostSubs,
                    list_growth_rate |-> listGrowthRate],
        ratios |-> {[den |-> uo, val |-> clickToOpenRate],
                    [den |-> listSize, val |-> listGrowthRate]}]

\* email marketing: the click-to-open rate over the campaigns of the window
CampaignCounts == [inWindow : BOOLEAN, unique_opens : JsonNums, unique_clicks : JsonNums]
CampaignSeqs == UNION {[1..n -> CampaignCounts] : n \in 0..MaxCamps}
\* sumClickOpens += uo > 0 ? uc / uo : 0
RECURSIVE SumClickOpens(_, _)
SumClickOpens(rs, n) ==
    IF n = 0 THEN Zero
    ELSE Add(SumClickOpens(rs, n - 1),
             Ratio(OrZero(rs[n].unique_clicks), OrZero(rs[n].unique_opens)))
RECURSIVE SumOf(_, _, _)
SumOf(rs, n, field) == IF n = 0 THEN Zero ELSE Add(SumOf(rs, n - 1, field), OrZero(rs[n][field]))

\* variant: one ratio of the summed clicks to the summed opens
ClickToOpenRate_ofSums(reports) ==
    LET reports30d == SelectSeq(reports, InWindow)
        n30 == Len(reports30d)
    IN Ratio(SumOf(reports30d, n30, "unique_clicks"), SumOf(reports30d, n30, "unique_opens"))

\* clickToOpenRate = n30 > 0 ? sumClickOpens / n30 : 0
ClickToOpenRate(reports) ==
    LET reports30d == SelectSeq(reports, InWindow)
        n30 == Len(reports30d)
    IN Ratio(SumClickOpens(reports30d, n30), Num(n30))

\* the keys of a Map, in insertion order
RECURSIVE KeysInOrder(_, _)
KeysInOrder(keys, n) ==
    IF n = 0 THEN <<>>
    ELSE LET before == KeysInOrder(keys, n - 1)
         IN IF keys[n] \in Range(before) THEN before ELSE Append(before, keys[n])

\* the top-N arrays built from a vendor report: a short report in any order,
\* or a long one with more rows than the largest cap
TopProductsCap == 15
LongRows == [i \in 1..(TopProductsCap + 1) |-> Some(i % 2)]
RowSeqs == UNION {[1..n -> JsonNums] : n \in 0..MaxRows} \cup {LongRows}
AdRows == [name : 1..MaxRows, cost_micros : JsonNums]
LongAdRows == [i \in 1..(TopN + 1) |-> [name |-> i, cost_micros |-> Some(i % 2)]]
AdRowSeqs == UNION {[1..n -> AdRows] : n \in 0..MaxRows} \cup {LongAdRows}

\* storefront: raw.slice(0, 15) of the top-sellers report, in the vendor's order
WooTopProducts(ok, raw) ==
    IF ok THEN [i \in 1..Min(Len(raw), TopProductsCap) |-> [quantity_sold |-> OrZero(raw[i])]]
    ELSE <<>>

\* web analytics: every row of the landing-page report, in the vendor's order
TopLandingPages(ok, rows) ==
    IF ok THEN [i \in 1..Len(rows) |-> [sessions |-> OrZero(rows[i])]] ELSE <<>>

\* paid ads: campaignMap sums the rows of one campaign name
RECURSIVE CostOf(_, _, _)
CostOf(rows, n, name) ==
    IF n = 0 THEN Zero
    ELSE Add(CostOf(rows, n - 1, name),
             IF rows[n].name = name THEN OrZero(rows[n].cost_micros) ELSE Zero)
\* .sort((a, b) => b[1].costMicros - a[1].costMicros): descending and stable
InsertByCost(sorted, x) ==
    LET k == Cardinality({i \in 1..Len(sorted) : sorted[i].costMicros.num >= x.costMicros.num})
    IN SubSeq(sorted, 1, k) \o <<x>> \o SubSeq(sorted, k + 1, Len(sorted))
RECURSIVE SortByCost(_, _)
SortByCost(es, n) == IF n = 0 THEN <<>> ELSE InsertByCost(SortByCost(es, n - 1), es[n])
\* .slice(0, 10), spend = Math.round(costMicros / 1_000_000 * 100) / 100
GAdsTopCampaigns(rows) ==
    LET names == KeysInOrder([i \in 1..Len(rows) |-> rows[i].name], Len(rows))
        entries == [i \in 1..Len(names) |->
                      [name |-> names[i], costMicros |-> CostOf(rows, Len(rows), names[i])]]
        sorted == SortByCost(entries, Len(entries))
    IN [i \in 1..Min(Len(sorted), TopN) |->
          [name |-> sorted[i].name,
           spend |-> RoundTo(Div(sorted[i].costMicros, Num(1000000)), 100)]]

NumInputs ==
    [fn : {"WooSales"}, num_orders : Texts, total_sales : Texts]
    \cup [fn : {"GAdsTotals"},
          row : [impressions : Texts, clicks : Texts, cost_micros : Texts,
                 conversions : Texts, conversions_value : Texts]]
    \cup [fn : {"MailchimpRatios"},
          stats : [unique_opens : JsonNums, unique_clicks : JsonNums, subscribed : JsonNums,
                   unsubscribed : JsonNums, member_count : JsonNums]]
    \cup [fn : {"CountField"}, ok : BOOLEAN, header : Texts]
    \cup [fn : {"ClickToOpenRate"}, campaigns : CampaignSeqs]
    \cup [fn : {"WooTopProducts", "TopLandingPages"}, ok : BOOLEAN, rows : RowSeqs]
    \cup [fn : {"GAdsTopCampaigns"}, rows : AdRowSeqs]

InitNum ==
    /\ credsDoc = EmptyCreds
    /\ metricsDoc = EmptyMetrics
    /\ req = [r \in Reqs |-> IdleReq]
    /\ clock = 0
    /\ mode = "isolated"
    /\ ingest = IngestOff
    /\ disconnected = [p \in Platforms |-> FALSE]
    /\ agg = AggOff
    /\ conn = ConnOff
    /\ \E in \in NumInputs : calc = [pc |-> "in", fn |-> in.fn, in |-> in]

CALC_wooSales ==
    /\ calc.pc = "in" /\ calc.fn = "WooSales"
    /\ calc' = [pc |-> "out", fn |-> calc.fn, in |-> calc.in,
                out |-> WooSales(calc.in.num_orders, calc.in.total_sales)]
    /\ UNCHANGED notCalc

CALC_gadsTotals ==
    /\ calc.pc = "in" /\ calc.fn = "GAdsTotals"
    /\ calc' = [pc |-> "out", fn |-> calc.fn, in |-> calc.in, out |-> GAdsTotals(calc.in.row)]
    /\ UNCHANGED notCalc

CALC_mailchimpRatios ==
    /\ calc.pc = "in" /\ calc.fn = "MailchimpRatios"
    /\ calc' = [pc |-> "out", fn |-> calc.fn, in |-> calc.in, out |-> MailchimpRatios(calc.in.stats)]
    /\ UNCHANGED notCalc

CALC_countField ==
    /\ calc.pc = "in" /\ calc.fn = "CountField"
    /\ calc' = [pc |-> "out", fn |-> calc.fn, in |-> calc.in,
                out |-> CountField(calc.in.ok, calc.in.header)]
    /\ UNCHANGED notCalc

CALC_clickToOpenRate ==
    /\ calc.pc = "in" /\ calc.fn = "ClickToOpenRate"
    /\ calc' = [pc |-> "out", fn |-> calc.fn, in |-> calc.in,
                out |-> ClickToOpenRate(calc.in.campaigns)]
    /\ UNCHANGED notCalc

CALC_wooTopProducts ==
    /\ calc.pc = "in" /\ calc.fn = "WooTopProducts"
    /\ calc' = [pc |-> "out", fn |-> calc.fn, in |-> calc.in,
                out |-> WooTopProducts(calc.in.ok, calc.in.rows)]
    /\ UNCHANGED notCalc

CALC_topLandingPages ==
    /\ calc.pc = "in" /\ calc.fn = "TopLandingPages"
    /\ calc' = [pc |-> "out", fn |-> calc.fn, in |-> calc.in,
                out |-> TopLandingPages(calc.in.ok, calc.in.rows)]
    /\ UNCHANGED notCalc

CALC_gadsTopCampaigns ==
    /\ calc.pc = "in" /\ calc.fn = "GAdsTopCampaigns"
    /\ calc' = [pc |-> "out", fn |-> calc.fn, in |-> calc.in,
                out |-> GAdsTopCampaigns(calc.in.rows)]
    /\ UNCHANGED notCalc

NextNum ==
    \/ CALC_wooTopProducts
    \/ CALC_topLandingPages
    \/ CALC_gadsTopCampaigns
    \/ CALC_wooSales
    \/ CALC_gadsTotals
    \/ CALC_mailchimpRatios
    \/ CALC_countField
    \/ CALC_clickToOpenRate

SpecNum == InitNum /\ [][NextNum]_vars

(* ------ storefront: repeat-purchase rate and second-purchase list ----- *)
\* the line items an order may carry: a short list with a line without a
\* product id and two lines of one product, and a list with one product more
\* than the list's cap
ShortItems == <<0, 1, 1>>
LongItems == [i \in 1..(TopN + 1) |-> i]
\* a completed order as the vendor returns it (its id is its position)
OrderKinds == [customer_id : 0..MaxCust, date_created : 1..MaxDate, line_items : {ShortItems, LongItems}]
\* orders that differ in their customer only, over one more customer
PlainOrders == [customer_id : 0..(MaxCust + 1), date_created : {1}, line_items : {ShortItems}]
OrderSeqs == UNION {[1..n -> OrderKinds] \cup [1..n -> PlainOrders] : n \in 0..MaxOrders}

\* allOrders: the orders of page 1 and page 2, each page only if its response is ok
AllOrders(orders, ok1, ok2) ==
    (IF ok1 THEN SubSeq(orders, 1, Min(Len(orders), PerPage)) ELSE <<>>)
    \o (IF ok2 THEN SubSeq(orders, PerPage + 1, Min(Len(orders), 2 * PerPage)) ELSE <<>>)

\* byCustomer: guests are skipped, each customer's orders stay in sample order
IsCustomerOrder(o) == o.customer_id # 0
\* variant: guest orders are grouped under the id 0 like a customer's
CustomerIds_withGuests(allOrders) ==
    KeysInOrder([i \in 1..Len(allOrders) |-> allOrders[i].customer_id], Len(allOrders))
CustomerIds(allOrders) ==
    LET mine == SelectSeq(allOrders, IsCustomerOrder)
    IN KeysInOrder([i \in 1..Len(mine) |-> mine[i].customer_id], Len(mine))
OrdersOfCustomer(allOrders, c) == LET Mine(o) == o.customer_id = c IN SelectSeq(allOrders, Mine)

\* if (orders.length < 2) continue; repeatBuyers++
IsRepeatBuyer(allOrders, c) == Len(OrdersOfCustomer(allOrders, c)) >= 2

\* repeatPurchaseRate = byCustomer.size > 0 ? repeatBuyers / byCustomer.size : 0
RepeatPurchaseRate(allOrders) ==
    LET ids == Range(CustomerIds(allOrders))
        repeatBuyers == Cardinality({c \in ids : IsRepeatBuyer(allOrders, c)})
    IN Ratio(Num(repeatBuyers), Num(Cardinality(ids)))

\* orders.sort((a, b) => date(a) - date(b)): ascending and stable
InsertByDate(sorted, x) ==
    LET k == Cardinality({i \in 1..Len(sorted) : sorted[i].date_created <= x.date_created})
    IN SubSeq(sorted, 1, k) \o <<x>> \o SubSeq(sorted, k + 1, Len(sorted))
RECURSIVE SortByDate(_, _)
SortByDate(os, n) == IF n = 0 THEN <<>> ELSE InsertByDate(SortByDate(os, n - 1), os[n])

\* variant: the first order of the customer is harvested
HarvestedOrder_first(allOrders, c) ==
    LET mine == OrdersOfCustomer(allOrders, c) IN SortByDate(mine, Len(mine))[1]

\* orders[1] after the sort: the customer's chronologically second order
HarvestedOrder(allOrders, c) ==
    LET mine == OrdersOfCustomer(allOrders, c) IN SortByDate(mine, Len(mine))[2]

\* the product ids met while harvesting, in the order they are met
IsProduct(pid) == pid # 0
RECURSIVE HarvestedProducts(_, _, _)
HarvestedProducts(allOrders, ids, n) ==
    IF n = 0 THEN <<>>
    ELSE HarvestedProducts(allOrders, ids, n - 1)
         \o (IF IsRepeatBuyer(allOrders, ids[n])
             THEN SelectSeq(HarvestedOrder(allOrders, ids[n]).line_items, IsProduct)
             ELSE <<>>)

\* secondPurchaseCounts as its entries in insertion order
SecondPurchaseCounts(allOrders) ==
    LET ids == CustomerIds(allOrders)
        met == HarvestedProducts(allOrders, ids, Len(ids))
        pids == KeysInOrder(met, Len(met))
    IN [i \in 1..Len(pids) |->
          [product_id |-> pids[i],
           quantity_sold |-> Cardinality({j \in 1..Len(met) : met[j] = pids[i]})]]

\* .sort((a, b) => b.count - a.count).slice(0, 10)
InsertByCount(sorted, x) ==
    LET k == Cardinality({i \in 1..Len(sorted) : sorted[i].quantity_sold >= x.quantity_sold})
    IN SubSeq(sorted, 1, k) \o <<x>> \o SubSeq(sorted, k + 1, Len(sorted))
RECURSIVE SortByCount(_, _)
SortByCount(es, n) == IF n = 0 THEN <<>> ELSE InsertByCount(SortByCount(es, n - 1), es[n])
RepeatProducts(allOrders) ==
    LET entries == SecondPurchaseCounts(allOrders)
        sorted == SortByCount(entries, Len(entries))
    IN SubSeq(sorted, 1, Min(Len(sorted), TopN))

InitRepeat ==
    /\ credsDoc = EmptyCreds
    /\ metricsDoc = EmptyMetrics
    /\ req = [r \in Reqs |-> IdleReq]
    /\ clock = 0
    /\ mode = "isolated"
    /\ ingest = IngestOff
    /\ disconnected = [p \in Platforms |-> FALSE]
    /\ agg = AggOff
    /\ conn = ConnOff
    /\ \E orders \in OrderSeqs : \E ok1, ok2 \in BOOLEAN :
         calc = [pc |-> "in", fn |-> "repeat", orders |-> orders, ok1 |-> ok1, ok2 |-> ok2]

CALC_repeat ==
    /\ calc.pc = "in" /\ calc.fn = "repeat"
    /\ LET allOrders == AllOrders(calc.orders, calc.ok1, calc.ok2)
       IN calc' = [pc |-> "out", fn |-> calc.fn, orders |-> calc.orders,
                   ok1 |-> calc.ok1, ok2 |-> calc.ok2, allOrders |-> allOrders,
                   \* Math.round(repeatPurchaseRate * 1000) / 1000
                   repeat_purchase_rate |-> RoundTo(RepeatPurchaseRate(allOrders), 1000),
                   repeat_purchase_products |-> RepeatProducts(allOrders)]
    /\ UNCHANGED notCalc

NextRepeat == CALC_repeat

SpecRepeat == InitRepeat /\ [][NextRepeat]_vars

(* ====================================================================== *)
Done(r, op) == req[r].op = op /\ req[r].pc = "done"
IsError(resp) == ~resp.ok /\ resp.status >= 400

\* C1: a connect that returns an error response leaves both documents as they
\* were before the call (no credential written without its metrics record).
C1_FailedConnectWritesNothing ==
    \A r \in Reqs :
        (Done(r, "connect") /\ ~req[r].overlapped /\ IsError(req[r].response))
            => (~req[r].changedCreds /\ ~req[r].changedMetrics)

\* C2: a sync whose connector fails leaves the platform's cached metrics record
\* present and unchanged in the platform-metrics document.
C2_FailedSyncKeepsCache ==
    \A r \in Reqs :
        (Done(r, "sync") /\ ~req[r].overlapped /\ req[r].connResult = "threw"
                         /\ req[r].preSlot # None)
            => metricsDoc.slots[req[r].platform] = req[r].preSlot

\* C3: a sync whose connector fails answers with an error response that
\* carries the connector's error, never with a success response.
C3_FailedSyncIsError ==
    \A r \in Reqs :
        (Done(r, "sync") /\ req[r].connResult = "threw")
            => (IsError(req[r].response) /\ req[r].response.error = req[r].connError)

\* C4: connect calls the named platform's connector and no other, and when
\* that connector throws the response is an error with the connector's message.
C4_ConnectCallsNamedConnectorOnly ==
    \A r \in Reqs :
        req[r].op = "connect" =>
            /\ req[r].invoked \subseteq {req[r].platform}
            /\ (req[r].pc = "done" /\ req[r].connResult = "threw")
                  => /\ IsError(req[r].response)
                     /\ req[r].response.status = 422
                     /\ req[r].response.error = req[r].connError

\* C4 witness: a connector threw during a connect while another platform's
\* credential was stored, and the 422 response was returned.
C4_Witness ==
    \E r \in Reqs : \E q \in Platforms :
        /\ Done(r, "connect") /\ req[r].connResult = "threw" /\ req[r].response.status = 422
        /\ q # req[r].platform /\ credsDoc[q] # None

\* C5: fetchAll never throws because a connector failed; every connector that
\* has settled successfully keeps its slot exactly as it returned it, every
\* other platform has no slot, and on return the slots are exactly the
\* launched platforms whose connector succeeded.
C5_AggregatorIsolation ==
    /\ agg.pc # "threw"
    /\ agg.pc \in {"waiting", "returned"} =>
          \A p \in Platforms :
              agg.results.slots[p] =
                  IF p \in agg.settled /\ agg.out[p].ok THEN agg.out[p].rec ELSE None
    /\ agg.pc = "returned" =>
          {p \in Platforms : agg.results.slots[p] # None}
              = {p \in Platforms : agg.creds[p] # None /\ agg.out[p].ok}

\* C5 witness: three platforms configured, one connector threw, fetchAll
\* returned with the other two platforms' records.
C5_Witness ==
    /\ agg.pc = "returned"
    /\ Cardinality(Launched(agg.creds)) = 3
    /\ Cardinality({p \in agg.settled : ~agg.out[p].ok}) = 1
    /\ Cardinality({p \in Platforms : agg.results.slots[p] # None}) = 2

\* what a listStatuses() or a getPromptContext() run now can read
ReadableCreds == {readJsonBlob(credsDoc, EmptyCreds, k) : k \in {"ok", "null"}}
ReadableMetrics == {readJsonBlob(metricsDoc, EmptyMetrics, k) : k \in {"ok", "null"}}

\* C6: after a disconnect(p) that ran with no other operation in flight, and
\* until a later connect of p, listStatuses reports p not connected with no
\* preview and getPromptContext has no section for p.
C6_DisconnectCompleteness ==
    \A p \in Platforms :
        disconnected[p] =>
            /\ \A c \in ReadableCreds : \A m \in ReadableMetrics :
                  /\ ~buildPlatformStatuses(c, m)[p].connected
                  /\ buildPlatformStatuses(c, m)[p].preview = None
            /\ \A k \in {"ok", "null"} : p \notin SectionsOf(PromptSection(metricsDoc, k))
            /\ \A r \in Reqs :
                  /\ (Done(r, "list") /\ req[r].response.ok) =>
                        /\ ~TheOne(req[r].response.statuses)[p].connected
                        /\ TheOne(req[r].response.statuses)[p].preview = None
                  /\ (Done(r, "prompt") /\ req[r].response.ok) =>
                        p \notin SectionsOf(req[r].response.text)

\* C6 witness: a disconnect that took a stored credential and a cached record
\* away has completed in isolation.
C6_Witness ==
    \E r \in Reqs :
        /\ Done(r, "disconnect") /\ req[r].response.ok
        /\ req[r].changedCreds /\ req[r].changedMetrics
        /\ req[r].platform \in Platforms /\ disconnected[req[r].platform]

\* the calls before the data calls went through with a usable result
PreCallsFine ==
    /\ conn.saValid
    /\ \A c \in PreCalls(conn.platform, conn.listId) : conn.fx[c] = "ok"
FailedCalls == {c \in Range(DataCalls(conn.platform)) : conn.fx[c] # "ok"}

\* C7: in the connectors with secondary calls, when the primary call succeeds
\* and exactly one secondary call fails (non-2xx, network rejection or bad
\* body), the fetch returns a success record in which only that call's fields
\* are defaulted.
C7_PartialTolerance ==
    (/\ conn.pc = "done"
     /\ conn.platform \in {"mailchimp", "woocommerce", "google_analytics"}
     /\ PreCallsFine
     /\ Cardinality(FailedCalls) = 1
     /\ FailedCalls \subseteq Secondaries(conn.platform))
        => /\ conn.result.ok
           /\ \A c \in Range(DataCalls(conn.platform)) :
                 conn.result.fields[c] = IF c \in FailedCalls THEN "default" ELSE "data"

\* C8: when the primary call of a connector fails, the fetch ends in an error
\* and no metrics record is returned.
C8_FatalPrimary ==
    (/\ conn.pc = "done"
     /\ Primary(conn.platform) \in Range(conn.issued)
     /\ conn.fx[Primary(conn.platform)] # "ok")
        => ~conn.result.ok

\* C9: in the paid-ads and web-analytics connectors the token exchange comes
\* before every data call, and an exchange that yields no usable access token
\* is followed by no data call and ends the fetch in an error carrying the
\* vendor's text when the vendor sent one.
C9_AuthShortCircuit ==
    (conn.pc # "off" /\ conn.platform \in {"google_analytics", "google_ads"}) =>
        /\ (conn.issued # <<>>) => conn.issued[1] = "token"
        /\ ("token" \in Range(conn.issued) /\ conn.fx["token"] # "ok") =>
              /\ Range(conn.issued) = {"token"}
              /\ conn.pc = "done" => ~conn.result.ok
              /\ conn.fx["token"] = "http_text" => conn.result.error = "vendor"

\* C10: connects overlap without lock or version check, so two successful
\* connects for different platforms can lose the first writer's key.  A
\* successful connect's key is missing from a document only when another
\* connect wrote that document from a snapshot the stored document had already
\* left behind (the write a version check would have refused).
C10_LossOnlyByStaleWrite ==
    \A r \in Reqs :
        (Done(r, "connect") /\ req[r].response.ok) =>
            /\ credsDoc[req[r].platform] = None =>
                  \E o \in Reqs \ {r} : req[o].op = "connect" /\ req[o].staleCreds
            /\ metricsDoc.slots[req[r].platform] = None =>
                  \E o \in Reqs \ {r} : req[o].op = "connect" /\ req[o].staleMetrics

\* C10 witness: two connects for different platforms both returned success,
\* every read returned the stored document, and the final credentials document
\* lacks the key one of them wrote.
C10_Witness ==
    \E r \in Reqs : \E o \in Reqs \ {r} :
        /\ Done(r, "connect") /\ req[r].response.ok /\ ~req[r].nullRead
        /\ Done(o, "connect") /\ req[o].response.ok /\ ~req[o].nullRead
        /\ req[r].platform # req[o].platform
        /\ credsDoc[req[r].platform] = None
        /\ credsDoc[req[o].platform] # None

\* C11: disconnect is atomic for an observer: a listStatuses() whose reads both
\* returned the stored documents, running while a disconnect of a platform is
\* in flight or after it ended (part-way included), never reports that
\* platform as not connected while its preview is still present.
C11_DisconnectAtomicForObserver ==
    \A r \in Reqs : \A o \in Reqs :
        (/\ Done(r, "list") /\ req[r].response.ok /\ ~req[r].nullRead
         /\ req[o].op = "disconnect" /\ req[o].platform \in Platforms) =>
            LET st == TheOne(req[r].response.statuses)[req[o].platform]
            IN ~st.connected => st.preview = None

\* C12: when a connect or a sync has answered success, the platform's slot in
\* the platform-metrics document is the record the connector returned (the
\* one the returned statuses preview), the credential slot after a connect is
\* the submitted credential, and the returned statuses show the platform
\* connected with a preview.
C12_SuccessStoresReturnedRecord ==
    \A r \in Reqs :
        ((Done(r, "connect") \/ Done(r, "sync")) /\ req[r].response.ok) =>
            LET p == req[r].platform
                st == TheOne(req[r].response.statuses)[p]
            IN /\ st.connected
               /\ st.preview # None
               /\ metricsDoc.slots[p] # None
               /\ st.preview = Some(Preview(TheOne(metricsDoc.slots[p])))
               /\ st.last_synced = TheOne(metricsDoc.slots[p]).fetched_at
               /\ req[r].op = "connect" => credsDoc[p] = req[r].credentials

C14_StatusesFollowDocuments ==
    (calc.pc = "out" /\ calc.fn = "buildPlatformStatuses") =>
        \A p \in Platforms :
            LET st == calc.out[p]
                slot == calc.metrics.slots[p]
            IN /\ st.connected <=> calc.creds[p] # None
               /\ slot # None => st.last_synced = TheOne(slot).fetched_at
               /\ slot = None => st.last_synced = NoStamp
               /\ st.preview = None <=> slot = None

\* C14 witness: statuses were built from documents in which one platform has
\* a credential and no record and another has a record and no credential.
C14_Witness ==
    /\ calc.pc = "out" /\ calc.fn = "buildPlatformStatuses"
    /\ \E p, q \in Platforms :
         /\ calc.creds[p] # None /\ calc.metrics.slots[p] = None
         /\ calc.creds[q] = None /\ calc.metrics.slots[q] # None
         /\ calc.out[p].connected /\ calc.out[p].preview = None
         /\ ~calc.out[q].connected /\ calc.out[q].preview # None

\* C15: buildPlatformMetricsSummary returns exactly the empty string when no
\* platform has a cached record (an empty document, or one holding only
\* last_synced_at), and otherwise the heading followed by exactly one section
\* for each platform with a cached record and none for any other platform.
C15_SummarySentinelAndSections ==
    (calc.pc = "out" /\ calc.fn = "buildPlatformMetricsSummary") =>
        LET cached == {p \in Platforms : calc.metrics.slots[p] # None}
            text == calc.out
            titles == {i \in 1..Len(text) : text[i][1] = "section"}
        IN IF cached = {} THEN text = <<>>
           ELSE /\ text # <<>> /\ text[1] = <<"heading">>
                /\ SectionsOf(text) = cached
                /\ Cardinality(titles) = Cardinality(cached)

\* C15 witness: the summary of a document that holds a last_synced_at stamp
\* and no record has been computed and is the empty string.
C15_Witness ==
    /\ calc.pc = "out" /\ calc.fn = "buildPlatformMetricsSummary"
    /\ calc.metrics.last_synced_at # NoStamp
    /\ \A p \in Platforms : calc.metrics.slots[p] = None
    /\ calc.out = <<>>

\* C16: the email-marketing connector with no list configured (list_id absent
\* or empty) lists the account's lists and selects the one with the largest
\* member count, the earliest in API order among equals; with zero lists it
\* fails with the "no lists found" error; with a list configured it makes no
\* listing call and uses that list.
C16_ListAutoSelection ==
    (calc.pc = "out" /\ calc.fn = "ResolveList") =>
        LET lists == calc.lists
            out == calc.out
        IN IF calc.list_id \in {None, Some("")}
           THEN /\ out.listed
                /\ Len(lists) = 0 =>
                      out.threw /\ out.err = "No Mailchimp lists found in this account"
                /\ Len(lists) > 0 =>
                      /\ ~out.threw /\ out.listId # None
                      /\ LET i == TheOne(out.listId)
                         IN /\ i \in 1..Len(lists)
                            /\ \A j \in 1..Len(lists) : CountOf(lists[j]) <= CountOf(lists[i])
                            /\ \A j \in 1..(i - 1) : CountOf(lists[j]) < CountOf(lists[i])
           ELSE ~out.listed /\ ~out.threw /\ out.listId = calc.list_id

\* C16 witness: with no list configured, the largest member count is shared by
\* two lists, neither of them first in the response, and the earlier is taken.
C16_Witness ==
    /\ calc.pc = "out" /\ calc.fn = "ResolveList"
    /\ calc.list_id = Some("") /\ Len(calc.lists) = 3
    /\ CountOf(calc.lists[1]) < CountOf(calc.lists[2])
    /\ CountOf(calc.lists[2]) = CountOf(calc.lists[3])
    /\ calc.out.listId = Some(2)

\* C17: email-marketing connector: when no campaign falls in the trailing 30
\* days, open_rate is the vendor-level list average, and 0 when the vendor
\* supplies none; when at least one campaign falls in the window, open_rate is
\* the mean of the open rates of the campaigns in the window.
C17_OpenRateFallback ==
    (calc.pc = "out" /\ calc.fn = "campaigns") =>
        LET inWin == {i \in 1..Len(calc.reports) : calc.reports[i].inWindow}
            total == SumRates(SelectSeq(calc.reports, InWindow), Cardinality(inWin))
        IN IF inWin = {}
           THEN /\ calc.open_rate.den = 1
                /\ calc.avg_open_rate # None => calc.open_rate.num = TheOne(calc.avg_open_rate)
                /\ calc.avg_open_rate = None => calc.open_rate.num = 0
           ELSE calc.open_rate.num * Cardinality(inWin) = total * calc.open_rate.den

\* C17 witness: the response holds campaigns, none of them in the window, the
\* vendor's list average is positive, and open_rate is that average.
C17_Witness ==
    /\ calc.pc = "out" /\ calc.fn = "campaigns"
    /\ Len(calc.reports) > 0
    /\ \A i \in 1..Len(calc.reports) : ~calc.reports[i].inWindow /\ RateOf(calc.reports[i]) > 0
    /\ calc.avg_open_rate # None /\ TheOne(calc.avg_open_rate) > 0
    /\ calc.open_rate = [num |-> TheOne(calc.avg_open_rate), den |-> 1]

\* the parts of C18 that do not depend on how equal open rates are ordered:
\* the list is made of distinct input reports, each at or above 1.2 x the
\* computed average, and its length is the number of qualifying reports
\* capped at 10 (never padded)
TopIsCappedSelection ==
    LET top == calc.top_campaigns
        qualifying == {i \in 1..Len(calc.reports) :
                          AtLeastThreshold(RateOf(calc.reports[i]), calc.open_rate)}
    IN /\ \A i \in 1..Len(top) : top[i] \in Range(calc.reports)
       /\ \A i, j \in 1..Len(top) : i # j => top[i].id # top[j].id
       /\ \A i \in 1..Len(top) : top[i].id \in qualifying
       /\ Len(top) <= TopN
       /\ Len(top) = IF Cardinality(qualifying) < TopN THEN Cardinality(qualifying) ELSE TopN
       /\ \A i \in 1..Len(top) : \A q \in qualifying :
             q \notin {top[j].id : j \in 1..Len(top)} => RateOf(calc.reports[q]) <= RateOf(top[i])

\* C18 as stated: the top-performing list is a subset of the input reports,
\* sorted strictly descending by open rate, of length at most 10, and made only
\* of reports at or above 1.2 x the computed window average, never padded.
C18_TopStrictlyDescending ==
    (calc.pc = "out" /\ calc.fn = "campaigns") =>
        /\ TopIsCappedSelection
        /\ \A i \in 1..(Len(calc.top_campaigns) - 1) :
              RateOf(calc.top_campaigns[i]) > RateOf(calc.top_campaigns[i + 1])

\* C18 amended: the same, with the order descending but not strictly: reports
\* with equal open rates are all kept (up to the cap) and stay in input order.
C18_TopDescendingWithTies ==
    (calc.pc = "out" /\ calc.fn = "campaigns") =>
        /\ TopIsCappedSelection
        /\ \A i \in 1..(Len(calc.top_campaigns) - 1) :
              \/ RateOf(calc.top_campaigns[i]) > RateOf(calc.top_campaigns[i + 1])
              \/ /\ RateOf(calc.top_campaigns[i]) = RateOf(calc.top_campaigns[i + 1])
                 /\ calc.top_campaigns[i].id < calc.top_campaigns[i + 1].id

\* C18 witness: more than 10 reports qualify, with two different open rates
\* among them; the list has 10 entries and holds reports of equal open rate.
C18_Witness ==
    /\ calc.pc = "out" /\ calc.fn = "campaigns"
    /\ Cardinality({i \in 1..Len(calc.reports) :
                       AtLeastThreshold(RateOf(calc.reports[i]), calc.open_rate)}) > TopN
    /\ Len(calc.top_campaigns) = TopN
    /\ RateOf(calc.top_campaigns[1]) > RateOf(calc.top_campaigns[TopN])
    /\ RateOf(calc.top_campaigns[1]) = RateOf(calc.top_campaigns[2])
    /\ calc.open_rate.num > 0

\* C19: every derived ratio X/Y of the connectors is 0 when Y = 0, and no
\* field of a returned metrics record is NaN, whatever the vendor response.
C19_RatiosAndFieldsAreNumbers ==
    (calc.pc = "out" /\ calc.fn \in {"WooSales", "GAdsTotals", "MailchimpRatios"}) =>
        /\ \A q \in calc.out.ratios : IsZero(q.den) => IsZero(q.val)
        /\ \A f \in DOMAIN calc.out.fields : ~calc.out.fields[f].nan

\* C20: storefront connector: a collection total read from the total-count
\* header is 0 when the header is absent and 0 when its value is not a
\* number; the count field is never NaN.
C20_HeaderTotalSafeParse ==
    (calc.pc = "out" /\ calc.fn = "CountField" /\ calc.in.ok) =>
        /\ ~calc.out.nan
        /\ calc.in.header = None => IsZero(calc.out)
        /\ (calc.in.header # None /\ TheOne(calc.in.header).lead = None) => IsZero(calc.out)

\* two fractions denote the same number
SameNumber(x, y) == ~x.nan /\ ~y.nan /\ x.num * y.den = y.num * x.den
RECURSIVE SumSeq(_, _)
SumSeq(xs, n) == IF n = 0 THEN Zero ELSE Add(SumSeq(xs, n - 1), xs[n])

\* C21: email-marketing connector: click_to_open_rate is the arithmetic mean,
\* over the campaigns of the 30-day window, of each campaign's own
\* unique_clicks / unique_opens (0 for a campaign with no opens), and 0 when
\* the window is empty; it is not the ratio of the summed counts.
C21_CtorIsMeanOfRatios ==
    (calc.pc = "out" /\ calc.fn = "ClickToOpenRate") =>
        LET win == SelectSeq(calc.in.campaigns, InWindow)
            n == Len(win)
            own == [i \in 1..n |->
                      IF win[i].unique_opens \in {None, Some(0)} THEN Zero
                      ELSE Div(OrZero(win[i].unique_clicks), OrZero(win[i].unique_opens))]
        IN IF n = 0 THEN IsZero(calc.out)
           ELSE SameNumber(calc.out, Div(SumSeq(own, n), Num(n)))

\* C21 witness: two campaigns in the window whose mean of ratios differs
\* from the ratio of their summed counts, and the mean is what is returned.
C21_Witness ==
    /\ calc.pc = "out" /\ calc.fn = "ClickToOpenRate"
    /\ LET win == SelectSeq(calc.in.campaigns, InWindow)
       IN /\ Len(win) = 2
          /\ Positive(Add(OrZero(win[1].unique_opens), OrZero(win[2].unique_opens)))
          /\ Positive(calc.out)
          /\ ~SameNumber(calc.out,
                         Div(Add(OrZero(win[1].unique_clicks), OrZero(win[2].unique_clicks)),
                             Add(OrZero(win[1].unique_opens), OrZero(win[2].unique_opens))))

\* the sample of a finished storefront calculation: the positions of the
\* vendor's completed orders that lie on a fetched page
SampleIdx ==
    {i \in 1..Min(Len(calc.orders), 2 * PerPage) :
        IF i <= PerPage THEN calc.ok1 ELSE calc.ok2}
SampleOf(c) == {i \in SampleIdx : calc.orders[i].customer_id = c}
SampleCustomers == {c \in 1..(MaxCust + 1) : SampleOf(c) # {}}
SampleRepeaters == {c \in 1..(MaxCust + 1) : Cardinality(SampleOf(c)) >= 2}
SampleRate ==
    IF SampleCustomers = {} THEN Zero
    ELSE Div(Num(Cardinality(SampleRepeaters)), Num(Cardinality(SampleCustomers)))
RepeatDone == calc.pc = "out" /\ calc.fn = "repeat"

\* C22 as stated: repeat_purchase_rate equals (customers with at least 2
\* orders in the sample) / (customers with at least 1 order in the sample),
\* and is 0 when the sample holds no customer.
C22_RateIsExactRatio ==
    RepeatDone => SameNumber(calc.repeat_purchase_rate, SampleRate)

\* C22: storefront connector: repeat_purchase_rate is that ratio rounded to
\* three decimals (the nearest thousandth), the sample being the fetched
\* pages of completed orders without the guest orders; it is 0 when the
\* sample holds no customer.
C22_RateIsRoundedRatio ==
    RepeatDone =>
        /\ SameNumber(calc.repeat_purchase_rate, RoundTo(SampleRate, 1000))
        /\ (SampleCustomers = {} => IsZero(calc.repeat_purchase_rate))
C22_Witness ==
    /\ RepeatDone
    /\ Cardinality(SampleCustomers) = 2
    /\ Cardinality(SampleRepeaters) = 1
    /\ \E i \in SampleIdx : calc.orders[i].customer_id = 0
    /\ calc.repeat_purchase_rate = [nan |-> FALSE, num |-> 500, den |-> 1000]

\* the orders of customer c that are second in date order within the sample
\* (more than one position only when dates are equal)
SecondOf(c) ==
    {i \in SampleOf(c) :
        /\ Cardinality({j \in SampleOf(c) : calc.orders[j].date_created < calc.orders[i].date_created}) <= 1
        /\ Cardinality({j \in SampleOf(c) : calc.orders[j].date_created <= calc.orders[i].date_created}) >= 2}
\* the lines of product pid in the orders f picks, one order per repeat customer
LinesOf(f, pid) ==
    {ck \in SampleRepeaters \X (1..(TopN + 1)) :
        LET items == calc.orders[f[ck[1]]].line_items
        IN ck[2] <= Len(items) /\ items[ck[2]] = pid}
IsRankingOf(list, f) ==
    LET counted == {pid \in 1..(TopN + 1) : LinesOf(f, pid) # {}}
        listed == {list[i].product_id : i \in 1..Len(list)}
    IN /\ Len(list) = Min(Cardinality(counted), TopN)
       /\ listed \subseteq counted
       /\ Cardinality(listed) = Len(list)
       /\ \A i \in 1..Len(list) :
            list[i].quantity_sold = Cardinality(LinesOf(f, list[i].product_id))
       /\ \A i \in 1..(Len(list) - 1) : list[i].quantity_sold >= list[i + 1].quantity_sold
       /\ \A pid \in counted \ listed : \A i \in 1..Len(list) :
            list[i].quantity_sold >= Cardinality(LinesOf(f, pid))

IsDescending(ns) == \A i \in 1..(Len(ns) - 1) : ns[i].num * ns[i + 1].den >= ns[i + 1].num * ns[i].den

\* C24: every top-N array of a normalized record (paid-ads top campaigns by
\* spend, storefront top products by quantity sold, web-analytics top landing
\* pages by sessions) is no longer than its cap and sorted descending by its
\* key, whatever rows the vendor returns and in whatever order.
C24_TopArraysCappedAndSorted ==
    /\ (calc.pc = "out" /\ calc.fn = "GAdsTopCampaigns") =>
          /\ Len(calc.out) <= TopN
          /\ IsDescending([i \in 1..Len(calc.out) |-> calc.out[i].spend])
    /\ (calc.pc = "out" /\ calc.fn = "WooTopProducts") =>
          /\ Len(calc.out) <= TopProductsCap
          /\ IsDescending([i \in 1..Len(calc.out) |-> calc.out[i].quantity_sold])
    /\ (calc.pc = "out" /\ calc.fn = "TopLandingPages") =>
          /\ Len(calc.out) <= TopN
          /\ IsDescending([i \in 1..Len(calc.out) |-> calc.out[i].sessions])

\* x has at most k decimal digits (k = 2 or 4)
HasDecimals(x, k) ==
    LET scale == IF k = 2 THEN 100 ELSE 10000
    IN x.nan \/ scale % x.den = 0 \/ ((x.num % x.den) * scale) % x.den = 0

\* C25: every currency field and every rate field of a normalized record has
\* no more decimal digits than its precision: 2 for money and decimal ratios,
\* 4 for rates shown as percentages.
C25_DecimalsWithinPrecision ==
    calc.pc = "out" =>
        /\ calc.fn = "WooSales" =>
              /\ HasDecimals(calc.out.fields.total_revenue_30d, 2)
              /\ HasDecimals(calc.out.fields.aov_30d, 2)
        /\ calc.fn = "GAdsTotals" =>
              /\ \A f \in {"total_spend_30d", "avg_cpc", "total_conversions_30d", "cost_per_conversion",
                           "total_conversion_value_30d", "roas_30d"} :
                    HasDecimals(calc.out.fields[f], 2)
              /\ \A f \in {"avg_ctr", "conversion_rate_30d"} : HasDecimals(calc.out.fields[f], 4)
        /\ calc.fn = "GAdsTopCampaigns" =>
              \A i \in 1..Len(calc.out) : HasDecimals(calc.out[i].spend, 2)
        /\ calc.fn = "MailchimpRatios" =>
              /\ HasDecimals(calc.out.fields.click_to_open_rate, 4)
              /\ HasDecimals(calc.out.fields.list_growth_rate, 4)
        /\ calc.fn = "ClickToOpenRate" => HasDecimals(calc.out, 4)

\* what a step may change when request r is the one running
FrameOf(r) ==
    LET p == req[r].platform
    IN /\ req[r].op \in {"connect", "sync", "disconnect"} =>
            \A q \in Platforms \ {p} :
                /\ credsDoc'[q] = credsDoc[q]
                /\ metricsDoc'.slots[q] = metricsDoc.slots[q]
       /\ req[r].op = "sync" => credsDoc' = credsDoc
       /\ req[r].op = "list" => credsDoc' = credsDoc /\ metricsDoc' = metricsDoc

\* C26: connect(p), sync(p) and disconnect(p), run with no other operation in
\* flight, change only platform p's slots and the last_synced_at stamp: the
\* other platforms' credential and metrics slots stay as they are, sync does
\* not write the credentials document and listStatuses writes nothing.
C26_OnlyOwnSlotChanges ==
    [][\A r \in Reqs : (InFlight(r) /\ ~req[r].overlapped) => FrameOf(r)]_vars

\* a finished connect whose body was unparsable or lacked the platform or the
\* credentials, or named a platform without a connector
InvalidConnect(r) ==
    /\ Done(r, "connect") /\ ~req[r].overlapped
    /\ (req[r].platform = "" \/ req[r].credentials = None \/ req[r].platform \notin Platforms)
\* a finished sync of a platform without a stored credential
UnconnectedSync(r) ==
    /\ Done(r, "sync") /\ ~req[r].overlapped
    /\ Slot(credsDoc, req[r].platform) = None
NothingDone(r) == req[r].invoked = {} /\ ~req[r].changedCreds /\ ~req[r].changedMetrics

\* C27: a connect with an unparsable body, without platform or credentials or
\* with an unknown platform name answers 400, and a sync of a platform without
\* a stored credential answers 404; neither invokes a connector nor writes a
\* document.
C27_InvalidRequestsAreClientErrors ==
    \A r \in Reqs :
        /\ InvalidConnect(r) => (req[r].response.status = 400 /\ NothingDone(r))
        /\ UnconnectedSync(r) => (req[r].response.status = 404 /\ NothingDone(r))

Quiescent == \A r \in Reqs : ~InFlight(r)

\* C28: under any interleaving of connects, syncs and disconnects, once no
\* operation is in flight, every platform with a record in the metrics
\* document has a credential in the credentials document; a sync(p) that
\* overlaps a disconnect(p) does not bring p's record back.
C28_RecordImpliesCredential ==
    Quiescent =>
        \A p \in Platforms : metricsDoc.slots[p] # None => credsDoc[p] # None

\* C29: in every state of the metrics document, under any interleaving of
\* connects, syncs and disconnects with a clock that never runs backwards,
\* last_synced_at is present whenever a platform record is present and is not
\* earlier than the fetched_at of any cached record.
C29_StampCoversRecords ==
    \A p \in Platforms :
        metricsDoc.slots[p] # None =>
            /\ metricsDoc.last_synced_at # NoStamp
            /\ metricsDoc.last_synced_at >= TheOne(metricsDoc.slots[p]).fetched_at

Running == ingest.phase \notin {"off", "confirming"}
AllTerminal == \A f \in 1..ingest.n : ingest.status[f] \in Terminal
InFlightAnalyses == {f \in 1..ingest.n : ingest.status[f] = "analyzing"}

TypeOK ==
    /\ clock \in Times
    /\ mode \in {"isolated", "overlap"}

====
